---- MODULE Spec2Model ----
(***************************************************************************)
(* A model of am_common_lib.docker_util.docker_runner:                     *)
(*   - DockerRunner: the scoped owner of one "docker run -i" process       *)
(*     (acquire = __enter__, release = __exit__, _force_remove_container); *)
(*   - _DockerFileIO: the stream over a "docker exec ... tee/cat" process. *)
(* The docker daemon, the container's file system and the operating        *)
(* system's processes are the environment: every outcome the code branches *)
(* on (a spawn that raises, an exit code, a timeout, the handshake line)   *)
(* is an input of the action, drawn with \E.                               *)
(***************************************************************************)
EXTENDS Integers, Sequences, FiniteSets, TLC

VARIABLES runner, container, events, lastrc,
          fs, io, call,
          view, tree, pure

vars == <<runner, container, events, lastrc, fs, io, call, view, tree, pure>>

runnerVars == <<runner, container, events, lastrc>>
fileVars == <<fs, io, call>>
\* The User Views of the runner, the container's directories with their
\* owners, and the argument and result of a function of util.py.
otherVars == <<view, tree, pure>>

\* Their values where no view was made, no directory is followed and no
\* function of util.py is called.
NoView == << >>
NoTree == << >>
NoPure == << >>

(***************************************************************************)
(* Bounds of the model.                                                    *)
(***************************************************************************)
\* docker exec commands issued through DockerRunner.run within one scope
MaxRuns == 2
\* bytes written within one scope of a _DockerFileIO instance
MaxWrite == 2

(***************************************************************************)
(* _DockerFileIO and DockerRunner.open                                     *)
(***************************************************************************)

\* The bytes callers write are 1 and 2; 0 is the byte of a hole left by a
\* write past the end of a file.
HoleByte == 0

\* Strings are sequences of characters.  None and "" are both << >>: every
\* test the code makes on user and workdir is a truth test.
None == << >>
Slash == "/"

\* str.startswith("/")
startswith_slash(p) == Len(p) > 0 /\ p[1] = Slash

\* str.rstrip("/")
RECURSIVE rstrip_slash(_)
rstrip_slash(p) ==
    IF Len(p) > 0 /\ p[Len(p)] = Slash
      THEN rstrip_slash(SubSeq(p, 1, Len(p) - 1))
      ELSE p

\* str.lstrip("/")
RECURSIVE lstrip_slash(_)
lstrip_slash(p) ==
    IF Len(p) > 0 /\ p[1] = Slash
      THEN lstrip_slash(SubSeq(p, 2, Len(p)))
      ELSE p

\* DockerRunner.open, lines 271-272: a relative path under a workdir becomes
\* f"{workdir.rstrip('/')}/{path.lstrip('/')}".
JoinWorkdir(path, workdir) ==
    IF workdir # None /\ ~startswith_slash(path)
      THEN rstrip_slash(workdir) \o <<Slash>> \o lstrip_slash(path)
      ELSE path

\* The names of a path, as the container's kernel walks them: split at "/",
\* empty names dropped.
RECURSIVE Components(_)
Components(p) ==
    IF p = << >> THEN << >>
    ELSE IF p[1] = Slash THEN Components(Tail(p))
    ELSE LET rest == Components(Tail(p))
             joins == Len(p) > 1 /\ p[2] # Slash
         IN  IF joins
               THEN <<(<<p[1]>> \o rest[1])>> \o Tail(rest)
               ELSE <<(<<p[1]>>)>> \o rest

\* The working directory of a docker exec without -w (the image's WORKDIR).
DefaultCwd == <<Slash>>

\* The file a process started with "docker exec [-w cwd]" means by `path`;
\* a relative cwd is taken from the default one.
Resolve(cwd, path) ==
    IF startswith_slash(path) THEN Components(path)
    ELSE IF cwd = None THEN Components(DefaultCwd) \o Components(path)
    ELSE IF startswith_slash(cwd) THEN Components(cwd) \o Components(path)
    ELSE Components(DefaultCwd) \o Components(cwd) \o Components(path)

\* The files of the container the model follows: /f and /w/f.
Targets == {<< <<"f">> >>, << <<"w">>, <<"f">> >>}

NoFile == [kind |-> "absent", data |-> << >>, readable |-> FALSE]
RegularFile(d, rd) == [kind |-> "file", data |-> d, readable |-> rd]
Directory == [kind |-> "dir", data |-> << >>, readable |-> FALSE]

\* Popen.returncode before the process was waited on.
NoRc == -1

\* _DockerFileIO._proc = None
NoProc ==
    [cmd |-> "none", target |-> << >>, pos |-> 0, pipe |-> << >>,
     stdin |-> "none", stdout |-> "none",
     exit_status |-> NoRc, returncode |-> NoRc, stderr |-> ""]

\* The two _DockerFileIO instances the model follows.
StreamIds == {1, 2}

\* _DockerFileIO.__init__, with the history of the instance, kept for the
\* properties: its scope, the number of processes it started (0, 1, and 2
\* for two or more); within the current scope the data of each write that
\* returned, the value each of them returned, the non-empty data each
\* read returned, and whether a whole-file read returned; and `after`: the
\* instances whose last scope had ended when this one's began and was not
\* entered again since.
NewFileIO(path, mode, user, cwd) ==
    [path |-> path, mode |-> mode, user |-> user, cwd |-> cwd, proc |-> NoProc,
     scope |-> "unopened", spawned |-> 0,
     wrote |-> << >>, returned |-> << >>, got |-> << >>, drained |-> FALSE,
     after |-> {}]

\* A slot no instance was created in yet.
NoStream == NewFileIO(None, "none", None, None)

\* One call on the API and what the caller saw of it: the result ("ok" or
\* the exception raised), the bytes given (argn) and returned or taken (n),
\* the docker exec commands it started, the scope the instance was in.
Call(op, id, whole, argn, result, n, cmds, scope) ==
    [op |-> op, id |-> id, whole |-> whole, argn |-> argn, result |-> result,
     n |-> n, cmds |-> cmds, scope |-> scope, detail |-> ""]

\* The same, for an exception whose message carries text.
Raised(c, text) == [c EXCEPT !.detail = text]

NoCall == Call("none", 0, FALSE, 0, "ok", 0, << >>, "unopened")

\* One docker exec command line: the program, -u, -w and the path argument.
Exec(cmd, user, cwd, path) ==
    [cmd |-> cmd, user |-> user, cwd |-> cwd, path |-> path]

\* DockerRunner.open
Runner_open(path, mode, user, workdir) ==
    IF mode \notin {"rb", "wb"}
      THEN [error |-> "ValueError", stream |-> NoStream]
      ELSE [error |-> "none",
            stream |-> NewFileIO(JoinWorkdir(path, workdir), mode, user,
                                 workdir)]

\* "test -f path" run through DockerRunner.run with no user and no workdir:
\* its exit code.
test_f(files, path) ==
    IF LET t == Resolve(None, path)
       IN  t \in Targets /\ files[t].kind = "file"
      THEN 0 ELSE 1

\* A faulty variant of TeeOpen: the file is opened for appending, not truncated.
TeeOpen_Append(f) ==
    IF f.kind = "dir" THEN f
    ELSE IF f.kind = "absent" THEN RegularFile(<< >>, TRUE)
    ELSE f

\* What "tee path" does to the file when it starts: creates it, or
\* truncates it; it cannot open a directory.
TeeOpen(f) ==
    IF f.kind = "dir" THEN f
    ELSE IF f.kind = "absent" THEN RegularFile(<< >>, TRUE)
    ELSE RegularFile(<< >>, f.readable)

\* A write of `chunk` at offset `pos` of a file holding `d`.
WriteAt(d, pos, chunk) ==
    LET end == pos + Len(chunk)
        len == IF end > Len(d) THEN end ELSE Len(d)
    IN  [i \in 1 .. len |->
           IF i > pos /\ i <= end THEN chunk[i - pos]
           ELSE IF i <= Len(d) THEN d[i]
           ELSE HoleByte]

\* The process "docker exec -i [-u user] [-w cwd] name tee path".
SpawnTee(files, st) ==
    LET t == Resolve(st.cwd, st.path)
        ok == t \in Targets /\ files[t].kind # "dir"
    IN  [proc |-> [cmd |-> "tee", target |-> t, pos |-> 0, pipe |-> << >>,
                   stdin |-> "open", stdout |-> "none",
                   exit_status |-> IF ok THEN NoRc ELSE 1,
                   returncode |-> NoRc,
                   stderr |-> IF ok THEN "" ELSE "tee: cannot open"],
         fs |-> IF ok THEN [files EXCEPT ![t] = TeeOpen(files[t])] ELSE files]

\* The process "docker exec -i [-u user] [-w cwd] name cat path": its
\* standard output holds the file, or it fails and says why on stderr.
SpawnCat(files, st) ==
    LET t == Resolve(st.cwd, st.path)
        ok == t \in Targets /\ files[t].kind = "file" /\ files[t].readable
    IN  [cmd |-> "cat", target |-> t, pos |-> 0,
         pipe |-> IF ok THEN files[t].data ELSE << >>,
         stdin |-> "none", stdout |-> "open",
         exit_status |-> IF ok THEN NoRc ELSE 1,
         returncode |-> NoRc,
         stderr |-> IF ok THEN "" ELSE "cat: cannot open"]

\* What a handler leaves behind: the stream, the files, the call's outcome.
Outcome(st, files, c) == [stream |-> st, fs |-> files, call |-> c]

\* The instance as a scope entry that started process `p` leaves it.
Entered(st, p, peers) ==
    [st EXCEPT !.proc = p, !.scope = "open",
               !.spawned = IF @ >= 2 THEN 2 ELSE @ + 1,
               !.wrote = << >>, !.returned = << >>, !.got = << >>,
               !.drained = FALSE,
               !.after = peers]

\* A faulty variant of FileIO_enter: cat is started first and the existence test is
\* made afterwards.
FileIO_enter_CatFirst(id, st, files, peers) ==
    IF st.mode = "wb"
      THEN LET sp == SpawnTee(files, st)
           IN  Outcome(Entered(st, sp.proc, peers), sp.fs,
                       Call("enter", id, FALSE, 0, "ok", 0,
                            <<Exec("tee", st.user, st.cwd, st.path)>>, st.scope))
      ELSE LET cmds == <<Exec("cat", st.user, st.cwd, st.path),
                         Exec("test -f", None, None, st.path)>>
               st1 == Entered(st, SpawnCat(files, st), peers)
           IN  IF test_f(files, st.path) # 0
                 THEN Outcome(st1, files,
                              Call("enter", id, FALSE, 0, "FileNotFoundError",
                                   0, cmds, st.scope))
                 ELSE Outcome(st1, files,
                              Call("enter", id, FALSE, 0, "ok", 0, cmds,
                                   st.scope))

\* _DockerFileIO.__enter__
FileIO_enter(id, st, files, peers) ==
    IF st.mode = "wb"
      THEN LET sp == SpawnTee(files, st)
           IN  Outcome(Entered(st, sp.proc, peers), sp.fs,
                       Call("enter", id, FALSE, 0, "ok", 0,
                            <<Exec("tee", st.user, st.cwd, st.path)>>, st.scope))
      ELSE IF test_f(files, st.path) # 0
        THEN Outcome(st, files,
                     Call("enter", id, FALSE, 0, "FileNotFoundError", 0,
                          <<Exec("test -f", None, None, st.path)>>, st.scope))
        ELSE Outcome(Entered(st, SpawnCat(files, st), peers), files,
                     Call("enter", id, FALSE, 0, "ok", 0,
                          <<Exec("test -f", None, None, st.path),
                            Exec("cat", st.user, st.cwd, st.path)>>, st.scope))

\* The exit status wait() collects: the one the process ended with, or 0
\* for a process that ran to its end; a client whose reader closed the pipe
\* on unread output is ended by SIGPIPE when `sigpipe` says so, which
\* Popen reports as -13.
WaitStatus(proc, sigpipe) ==
    IF proc.exit_status # NoRc THEN proc.exit_status
    ELSE IF proc.cmd = "cat" /\ proc.pipe # << >> /\ sigpipe THEN -13
    ELSE 0

\* _DockerFileIO.__exit__
FileIO_exit(id, st, files, sigpipe) ==
    IF st.proc.cmd = "none"
      THEN Outcome(st, files,
                   Call("exit", id, FALSE, 0, "AssertionError", 0, << >>,
                        st.scope))
      ELSE LET rc == IF st.proc.returncode # NoRc THEN st.proc.returncode
                     ELSE WaitStatus(st.proc, sigpipe)
               p1 == IF st.mode = "wb"
                       THEN [st.proc EXCEPT !.stdin = "closed", !.returncode = rc,
                                            !.exit_status = rc]
                       ELSE [st.proc EXCEPT !.stdout = "closed", !.pipe = << >>,
                                            !.returncode = rc, !.exit_status = rc]
           IN  Outcome([st EXCEPT !.proc = p1, !.scope = "closed"], files,
                       Call("exit", id, FALSE, 0, "ok", 0, << >>, st.scope))

\* _DockerFileIO.write.  A process that could not open its target either
\* still takes what is written to its pipe (`accepted`) or is gone already.
FileIO_write(id, st, files, data, accepted) ==
    IF st.mode # "wb" \/ st.proc.cmd = "none" \/ st.proc.stdin = "none"
      THEN Outcome(st, files,
                   Call("write", id, FALSE, Len(data), "ValueError", 0, << >>,
                        st.scope))
    ELSE IF st.proc.stdin = "closed"
      \* BufferedWriter.write on a closed pipe object
      THEN Outcome(st, files,
                   Call("write", id, FALSE, Len(data), "ValueError", 0, << >>,
                        st.scope))
    ELSE IF st.proc.exit_status # NoRc /\ ~accepted
      \* flush() into the pipe of a process that is gone
      THEN Outcome(st, files,
                   Call("write", id, FALSE, Len(data), "BrokenPipeError", 0,
                        << >>, st.scope))
    ELSE IF st.proc.exit_status # NoRc
      THEN Outcome([st EXCEPT !.wrote = Append(@, data),
                              !.returned = Append(@, Len(data))],
                   files,
                   Call("write", id, FALSE, Len(data), "ok", Len(data), << >>,
                        st.scope))
    ELSE LET t == st.proc.target
             f == files[t]
             f1 == IF f.kind = "file"
                     THEN RegularFile(WriteAt(f.data, st.proc.pos, data), f.readable)
                     ELSE f
         IN  Outcome([st EXCEPT !.proc.pos = @ + Len(data),
                                !.wrote = Append(@, data),
                                !.returned = Append(@, Len(data))],
                     [files EXCEPT ![t] = f1],
                     Call("write", id, FALSE, Len(data), "ok", Len(data), << >>,
                          st.scope))

\* BufferedReader.read(size) on the pipe: read(n) for n >= 1 gives up to n
\* bytes, read(-1) everything to the end.
Take(pipe, size) ==
    IF size < 0 \/ size >= Len(pipe) THEN pipe ELSE SubSeq(pipe, 1, size)

Drop(pipe, size) ==
    IF size < 0 \/ size >= Len(pipe) THEN << >>
    ELSE SubSeq(pipe, size + 1, Len(pipe))

\* The history of reads, with the data one more read returned.
Got(hist, data) == IF data = << >> THEN hist ELSE Append(hist, data)

\* The bytes of a sequence of chunks, in order.
RECURSIVE Flatten(_)
Flatten(chunks) ==
    IF chunks = << >> THEN << >> ELSE Head(chunks) \o Flatten(Tail(chunks))

\* The number of bytes the writes of the current scope were given.
Written(st) == Len(Flatten(st.wrote))

\* A faulty variant of FileIO_read: a sized read looks at the process's exit status
\* as the whole-file read does.
FileIO_read_UniformCheck(id, st, files, whole, size) ==
    IF st.mode # "rb" \/ st.proc.cmd = "none" \/ st.proc.stdout = "none"
      THEN Outcome(st, files,
                   Call("read", id, whole, 0, "ValueError", 0, << >>, st.scope))
    ELSE IF st.proc.stdout = "closed"
      THEN Outcome(st, files,
                   Call("read", id, whole, 0,
                        IF whole THEN "ValueError" ELSE "OSError",
                        0, << >>, st.scope))
    ELSE IF st.proc.exit_status # NoRc /\ st.proc.exit_status # 0
      THEN Outcome(st, files,
                   Raised(Call("read", id, whole, 0, "FileNotFoundError", 0,
                               << >>, st.scope), st.proc.stderr))
    ELSE IF whole
      THEN Outcome([st EXCEPT !.proc.pipe = << >>, !.proc.stdout = "closed",
                              !.proc.returncode = 0, !.proc.exit_status = 0,
                              !.drained = TRUE, !.got = Got(@, st.proc.pipe)],
                   files,
                   Call("read", id, whole, 0, "ok", Len(st.proc.pipe), << >>,
                        st.scope))
    ELSE Outcome([st EXCEPT !.proc.pipe = Drop(@, size),
                            !.got = Got(@, Take(st.proc.pipe, size))],
                 files,
                 Call("read", id, whole, 0, "ok", Len(Take(st.proc.pipe, size)),
                      << >>, st.scope))

\* _DockerFileIO.read: `whole` is read() with no size, else read(size).
FileIO_read(id, st, files, whole, size) ==
    IF st.mode # "rb" \/ st.proc.cmd = "none" \/ st.proc.stdout = "none"
      THEN Outcome(st, files,
                   Call("read", id, whole, 0, "ValueError", 0, << >>, st.scope))
    ELSE IF st.proc.stdout = "closed"
      \* BufferedReader.read on a closed pipe object raises ValueError; the
      \* sized path wraps every exception in OSError.
      THEN Outcome(st, files,
                   Call("read", id, whole, 0,
                        IF whole THEN "ValueError" ELSE "OSError",
                        0, << >>, st.scope))
    ELSE IF whole
      THEN LET rc == WaitStatus([st.proc EXCEPT !.pipe = << >>], FALSE)
               st1 == [st EXCEPT !.proc.pipe = << >>, !.proc.stdout = "closed",
                                 !.proc.returncode = rc, !.proc.exit_status = rc]
           IN  IF rc # 0
                 THEN Outcome(st1, files,
                              Raised(Call("read", id, whole, 0,
                                          "FileNotFoundError", 0, << >>,
                                          st.scope),
                                     st.proc.stderr))
                 ELSE Outcome([st1 EXCEPT !.got = Got(@, st.proc.pipe),
                                          !.drained = TRUE], files,
                              Call("read", id, whole, 0, "ok",
                                   Len(st.proc.pipe), << >>, st.scope))
    ELSE Outcome([st EXCEPT !.proc.pipe = Drop(@, size),
                            !.got = Got(@, Take(st.proc.pipe, size))],
                 files,
                 Call("read", id, whole, 0, "ok", Len(Take(st.proc.pipe, size)),
                      << >>, st.scope))

(***************************************************************************)
(* DockerRunner                                                            *)
(***************************************************************************)

\* The fixed grace period of communicate(timeout=2), in seconds.
ExitTimeout == 2

\* Outcomes of starting "docker run": Popen raises OSError; the client runs
\* and the container is up; the client started but no container came up
\* (unknown image, daemon unreachable) and the client has exited.
LaunchOutcomes == {"oserror", "up", "down"}

\* What the handshake sees: the line "Hi", another line (or EOF), or a
\* BrokenPipeError on writing "echo Hi" to a client that already exited.
HandshakeOutcomes == {"Hi", "mismatch", "pipe"}

\* Outcomes of subprocess.run(["docker","rm","-f",name], check=False): the
\* container is removed; docker rm exits non-zero (ignored by check=False);
\* the command cannot be started and subprocess.run raises OSError.
RmOutcomes == {"removed", "nonzero", "nostart"}

\* Seconds the docker client needs to exit after "exit 0" was written;
\* ExitTimeout + 1 stands for "longer than the grace period / never".
ExitDelays == 0 .. (ExitTimeout + 1)

\* DockerRunner.__init__: the flags kept by the constructor; no process yet.
NewRunner(auto, skip) ==
    [auto_clean_up |-> auto, skip_handshake |-> skip,
     process |-> "none", reaped |-> FALSE, waited |-> -1,
     phase |-> "new", raised |-> "none"]

\* The world a handler leaves behind: the runner object, the daemon's view
\* of the container named _uniq_name, and the commands issued so far.
World(r, c, ev) == [runner |-> r, container |-> c, events |-> ev]

\* The log entry of one docker rm -f, with what became of it.
RmEvent(rm) ==
    IF rm = "removed" THEN "rm -f: removed"
    ELSE IF rm = "nonzero" THEN "rm -f: exit 1"
    ELSE "rm -f: not started"

IsRm(e) == e \in {RmEvent(rm) : rm \in RmOutcomes}

\* DockerRunner._force_remove_container: docker rm -f, exit status ignored,
\* output discarded.  A failure to start the command is not caught here.
force_remove_container(c, ev, rm) ==
    [container |-> IF rm = "removed" THEN "absent" ELSE c,
     events |-> Append(ev, RmEvent(rm)),
     error |-> IF rm = "nostart" THEN "OSError(rm)" ELSE "none"]

\* The except-Exception handler of __enter__ (lines 88-92): remove the
\* container, then re-raise the error in flight.  An exception raised by
\* the removal itself replaces the one in flight.
EnterCleanup(r, c, ev, err, rm) ==
    LET f == force_remove_container(c, ev, rm)
    IN World([r EXCEPT !.phase = "enter_raised",
                       !.raised = IF f.error # "none" THEN f.error ELSE err],
             f.container, f.events)

\* A faulty variant of Launched: the --rm flag is dropped from the command line.
Launched_WithoutRm(extra_args) == "running"

\* The container "docker run -i <extra_args> --name <name> <image>" brings
\* up: with --rm the daemon removes it as soon as its main process ends.
Launched(extra_args) ==
    IF extra_args = "--rm" THEN "running --rm" ELSE "running"

IsRunning(c) == c \in {"running", "running --rm"}

\* A faulty variant of Runner_enter: Popen sits before the try block, so a launch
\* that raises skips the cleanup.
Runner_enter_PopenOutsideTry(r, c, ev, launch, hs, rm) ==
    LET extra_args == IF r.auto_clean_up THEN "--rm" ELSE ""
        ev1 == Append(ev, "run")
        proc == IF launch = "up" THEN "running" ELSE "exited"
        c1 == IF launch = "up" THEN Launched(extra_args) ELSE c
        r1 == [r EXCEPT !.process = proc]
    IN  IF launch = "oserror"
          THEN World([r EXCEPT !.phase = "enter_raised",
                               !.raised = "OSError(run)"], c, ev1)
        ELSE IF r.skip_handshake
          THEN World([r1 EXCEPT !.phase = "in_scope"], c1, ev1)
        ELSE LET ev2 == Append(ev1, "write echo Hi")
             IN  IF hs = "pipe"
                   THEN EnterCleanup(r1, c1, ev2, "BrokenPipeError", rm)
                 ELSE IF hs # "Hi"
                   THEN EnterCleanup(r1, c1, ev2, "InitializationFailed", rm)
                 ELSE World([r1 EXCEPT !.phase = "in_scope"], c1, ev2)

\* DockerRunner.__enter__
Runner_enter(r, c, ev, launch, hs, rm) ==
    LET extra_args == IF r.auto_clean_up THEN "--rm" ELSE ""
        ev1 == Append(ev, "run")
        proc == IF launch = "up" THEN "running" ELSE "exited"
        c1 == IF launch = "up" THEN Launched(extra_args) ELSE c
        r1 == [r EXCEPT !.process = proc]
    IN  IF launch = "oserror"
          THEN EnterCleanup(r, c, ev1, "OSError(run)", rm)
        ELSE IF r.skip_handshake
          THEN World([r1 EXCEPT !.phase = "in_scope"], c1, ev1)
        ELSE LET ev2 == Append(ev1, "write echo Hi")
             IN  IF hs = "pipe"
                   THEN EnterCleanup(r1, c1, ev2, "BrokenPipeError", rm)
                 ELSE IF hs # "Hi"
                   THEN EnterCleanup(r1, c1, ev2, "InitializationFailed", rm)
                 ELSE World([r1 EXCEPT !.phase = "in_scope"], c1, ev2)

\* What the daemon does with the container when its main process ends:
\* "docker run --rm" removes it, otherwise it stays as a stopped container.
ContainerAfterStop(c) ==
    IF c = "running --rm" THEN "absent"
    ELSE IF c = "running" THEN "stopped"
    ELSE c

\* A faulty variant of Runner_exit: the forced removal after the kill is not guarded
\* by auto_clean_up.
Runner_exit_AlwaysRemove(r, c, ev, delay, killStops, rm) ==
    LET ev1 == Append(ev, "write exit 0")
    IN  IF r.process # "running"
          THEN World([r EXCEPT !.phase = "exit_raised",
                               !.raised = "BrokenPipeError"], c, ev1)
        ELSE IF delay <= ExitTimeout
          THEN World([r EXCEPT !.process = "exited", !.reaped = TRUE,
                               !.waited = delay, !.phase = "released"],
                     ContainerAfterStop(c), Append(ev1, "communicate"))
        ELSE
          LET ev2 == Append(Append(ev1, "communicate timeout"), "kill")
              c2 == IF killStops THEN ContainerAfterStop(c) ELSE c
              r2 == [r EXCEPT !.process = "killed", !.waited = delay]
              f == force_remove_container(c2, ev2, rm)
          IN  IF f.error # "none"
                THEN World([r2 EXCEPT !.phase = "exit_raised",
                                      !.raised = f.error],
                           f.container, f.events)
                ELSE World([r2 EXCEPT !.phase = "released"],
                           f.container, f.events)

\* DockerRunner.__exit__
Runner_exit(r, c, ev, delay, killStops, rm) ==
    LET ev1 == Append(ev, "write exit 0")
    IN  IF r.process # "running"
          \* flush() on the pipe of a client that is gone
          THEN World([r EXCEPT !.phase = "exit_raised",
                               !.raised = "BrokenPipeError"], c, ev1)
        ELSE IF delay <= ExitTimeout
          \* communicate() returned: the client exited and was waited on
          THEN World([r EXCEPT !.process = "exited", !.reaped = TRUE,
                               !.waited = delay, !.phase = "released"],
                     ContainerAfterStop(c), Append(ev1, "communicate"))
        ELSE \* TimeoutExpired: kill the client, no wait follows
          LET ev2 == Append(Append(ev1, "communicate timeout"), "kill")
              c2 == IF killStops THEN ContainerAfterStop(c) ELSE c
              r2 == [r EXCEPT !.process = "killed", !.waited = delay]
          IN  IF r.auto_clean_up
                THEN LET f == force_remove_container(c2, ev2, rm)
                     IN  IF f.error # "none"
                           THEN World([r2 EXCEPT !.phase = "exit_raised",
                                                 !.raised = f.error],
                                      f.container, f.events)
                           ELSE World([r2 EXCEPT !.phase = "released"],
                                      f.container, f.events)
                ELSE World([r2 EXCEPT !.phase = "released"], c2, ev2)

\* DockerRunner.run: docker exec in the named container; the exit code is
\* the command's, or docker's own failure when the container is not running.
Runner_run(c, ev, rc) ==
    [events |-> Append(ev, "exec"),
     returncode |-> IF IsRunning(c) THEN rc ELSE 1]

NumRuns(ev) == Cardinality({i \in 1 .. Len(ev) : ev[i] = "exec"})

InitRunner ==
    /\ \E auto \in BOOLEAN, skip \in BOOLEAN : runner = NewRunner(auto, skip)
    /\ container = "absent"
    /\ events = << >>
    /\ lastrc = -1
    /\ fs = [t \in Targets |-> NoFile]
    /\ io = [s \in StreamIds |-> NoStream]
    /\ call = NoCall
    /\ view = NoView
    /\ tree = NoTree
    /\ pure = NoPure

Enter ==
    /\ runner.phase = "new"
    /\ \E launch \in LaunchOutcomes, hs \in HandshakeOutcomes, rm \in RmOutcomes :
         /\ launch = "down" => hs # "Hi"
         /\ launch = "up" => hs # "pipe"
         /\ LET w == Runner_enter(runner, container, events, launch, hs, rm)
            IN  /\ runner' = w.runner
                /\ container' = w.container
                /\ events' = w.events
    /\ UNCHANGED <<lastrc, fileVars, otherVars>>

Run ==
    /\ runner.phase = "in_scope"
    /\ NumRuns(events) < MaxRuns
    /\ \E rc \in {0, 1} :
         LET x == Runner_run(container, events, rc)
         IN  /\ events' = x.events
             /\ lastrc' = x.returncode
    /\ UNCHANGED <<runner, container, fileVars, otherVars>>

\* The container's main process ends by itself while the scope is open
\* (the shell is told to exit through docker exec, or crashes): the docker
\* client exits with it.
ContainerStops ==
    /\ runner.phase = "in_scope"
    /\ runner.process = "running"
    /\ runner' = [runner EXCEPT !.process = "exited"]
    /\ container' = ContainerAfterStop(container)
    /\ UNCHANGED <<events, lastrc, fileVars, otherVars>>

Exit ==
    /\ runner.phase = "in_scope"
    /\ \E delay \in ExitDelays, killStops \in BOOLEAN, rm \in RmOutcomes :
         LET w == Runner_exit(runner, container, events, delay, killStops, rm)
         IN  /\ runner' = w.runner
             /\ container' = w.container
             /\ events' = w.events
    /\ UNCHANGED <<lastrc, fileVars, otherVars>>

NextRunner == Enter \/ Run \/ ContainerStops \/ Exit

SpecRunner == InitRunner /\ [][NextRunner]_vars

(***************************************************************************)
(* The streams of one acquired runner.  SpecFile follows one instance      *)
(* through every call sequence; SpecRoundTrip follows a write-mode and a   *)
(* read-mode instance opened with the same arguments.                      *)
(***************************************************************************)

\* The (path, workdir) pairs DockerRunner.open is called with: a relative
\* path without a workdir, with an absolute and with a relative one, an
\* absolute path with a workdir.
OpenArgs ==
    {<< <<"f">>, None >>,
     << <<"f">>, <<Slash, "w", Slash>> >>,
     << <<"f">>, <<"w">> >>,
     << <<Slash, "f">>, <<Slash, "w", Slash>> >>}
ModeArgs == {"rb", "wb", "r+b"}
\* The user DockerRunner.open is given: none, or the name a user view passes.
UserArgs == {None, <<"basicuser">>}

\* The data of one write, and the sizes of a sized read.
Chunks == {<<1>>, <<2>>, <<1, 2>>}
ReadSizes == {-1, 1, 2}

\* The files the image ships: /f is missing, a directory, a readable file
\* or a file the stream's user may not read; /w/f is missing.
InitialFiles ==
    {[t \in Targets |-> IF t = << <<"f">> >> THEN f ELSE NoFile] :
        f \in {NoFile, Directory, RegularFile(<<1, 2>>, TRUE), RegularFile(<<2>>, FALSE)}}

\* A runner whose scope has been entered: the container is up.
InitFile ==
    /\ runner = [NewRunner(TRUE, FALSE) EXCEPT !.process = "running",
                                               !.phase = "in_scope"]
    /\ container = Launched("--rm")
    /\ events = <<"run", "write echo Hi">>
    /\ lastrc = -1
    /\ fs \in InitialFiles
    /\ io = [s \in StreamIds |-> NoStream]
    /\ call = NoCall
    /\ view = NoView
    /\ tree = NoTree
    /\ pure = NoPure

\* Both instances created by DockerRunner.open with the same arguments,
\* the first to write and the second to read.
InitRoundTrip ==
    /\ runner = [NewRunner(TRUE, FALSE) EXCEPT !.process = "running",
                                               !.phase = "in_scope"]
    /\ container = Launched("--rm")
    /\ events = <<"run", "write echo Hi">>
    /\ lastrc = -1
    /\ fs \in InitialFiles
    /\ \E args \in OpenArgs, user \in UserArgs :
         io = [s \in StreamIds |->
                 Runner_open(args[1], IF s = 1 THEN "wb" ELSE "rb", user,
                             args[2]).stream]
    /\ call = NoCall
    /\ view = NoView
    /\ tree = NoTree
    /\ pure = NoPure

\* The instance `id` is left as the handler left it; an instance that
\* started a process is no longer one whose scope the others began after.
\* The outcome of the call is kept where calls are observed.
Apply(id, out, observed) ==
    /\ io' = [s \in StreamIds |->
                IF s = id THEN out.stream
                ELSE IF out.call.op = "enter" /\ out.stream.scope = "open"
                  THEN [io[s] EXCEPT !.after = @ \ {id}]
                  ELSE io[s]]
    /\ fs' = out.fs
    /\ call' = IF observed THEN out.call ELSE NoCall

Created(id) == io[id].mode # "none"

\* The instances whose scope has ended.
ClosedPeers(id) == {s \in StreamIds \ {id} : io[s].scope = "closed"}

\* SpecFile's only instance is the first.
Open ==
    /\ ~Created(1)
    /\ \E args \in OpenArgs, mode \in ModeArgs, user \in UserArgs :
         LET o == Runner_open(args[1], mode, user, args[2])
         IN  /\ call' = Call("open", 1, FALSE, 0,
                             IF o.error # "none" THEN o.error ELSE "ok",
                             0, << >>, "unopened")
             /\ io' = [io EXCEPT ![1] = o.stream]
    /\ UNCHANGED <<fs, runnerVars, otherVars>>

StreamEnter(observed) ==
    /\ \E id \in StreamIds :
         /\ Created(id)
         /\ Apply(id, FileIO_enter(id, io[id], fs, ClosedPeers(id)), observed)
    /\ UNCHANGED <<runnerVars, otherVars>>

StreamWrite(observed) ==
    /\ \E id \in StreamIds, data \in Chunks, accepted \in BOOLEAN :
         /\ Created(id)
         /\ Written(io[id]) + Len(data) <= MaxWrite
         /\ Apply(id, FileIO_write(id, io[id], fs, data, accepted), observed)
    /\ UNCHANGED <<runnerVars, otherVars>>

StreamRead(observed) ==
    /\ \E id \in StreamIds, whole \in BOOLEAN, size \in ReadSizes :
         /\ Created(id)
         /\ whole => size = -1
         /\ Apply(id, FileIO_read(id, io[id], fs, whole, size), observed)
    /\ UNCHANGED <<runnerVars, otherVars>>

StreamExit(observed) ==
    /\ \E id \in StreamIds, sigpipe \in BOOLEAN :
         /\ Created(id)
         /\ Apply(id, FileIO_exit(id, io[id], fs, sigpipe), observed)
    /\ UNCHANGED <<runnerVars, otherVars>>

\* One instance, every call observed.
NextFile ==
    \/ Open
    \/ StreamEnter(TRUE)
    \/ StreamWrite(TRUE)
    \/ StreamRead(TRUE)
    \/ StreamExit(TRUE)

SpecFile == InitFile /\ [][NextFile]_vars

\* A writer and a reader, followed through what they wrote and read.
NextRoundTrip ==
    \/ StreamEnter(FALSE)
    \/ StreamWrite(FALSE)
    \/ StreamRead(FALSE)
    \/ StreamExit(FALSE)

SpecRoundTrip == InitRoundTrip /\ [][NextRoundTrip]_vars

(***************************************************************************)
(* Properties of DockerRunner, checked under SpecRunner.                   *)
(***************************************************************************)

Has(ev, e) == \E i \in 1 .. Len(ev) : ev[i] = e
HasRm(ev) == \E i \in 1 .. Len(ev) : IsRm(ev[i])
Released == runner.phase \in {"released", "exit_raised"}

\* The errors acquire itself can fail with.
AcquireErrors == {"OSError(run)", "BrokenPipeError", "InitializationFailed"}

\* C1: whenever acquire (__enter__) has raised, for a launch failure and for
\* a handshake failure alike, the last command issued before the error
\* reached the caller is the forced removal docker rm -f.
C1_RemovalIssuedOnEveryAcquireFailure ==
    runner.phase = "enter_raised" =>
        /\ events # << >>
        /\ IsRm(events[Len(events)])
        /\ Cardinality({i \in 1 .. Len(events) : IsRm(events[i])}) = 1

C1_Witness ==
    /\ runner.phase = "enter_raised"
    /\ runner.raised = "OSError(run)"
    /\ HasRm(events)

\* C2 as stated: with auto-cleanup, once release has returned (graceful or
\* timeout path) the container no longer exists.
C2_Original_ContainerGoneAfterRelease ==
    (runner.auto_clean_up /\ runner.phase = "released") =>
        container = "absent"

\* C2 amended: with auto-cleanup, after the scope exits the container no
\* longer exists on the graceful path, and on the timeout path whenever the
\* best-effort docker rm -f succeeded (or the kill already ended it).
C2_ContainerGoneUnlessRemovalFailed ==
    (runner.auto_clean_up /\ Released) =>
        \/ container = "absent"
        \/ /\ Has(events, "communicate timeout")
           /\ ~Has(events, RmEvent("removed"))

C2_Witness ==
    /\ runner.auto_clean_up
    /\ runner.phase = "released"
    /\ Has(events, "communicate")
    /\ container = "absent"

\* C3: on release "exit 0" is written before anything else; a kill happens
\* only right after the wait timed out (the client needed longer than
\* ExitTimeout), a forced removal only right after that kill and only with
\* auto-cleanup; when the client exits in time there is no kill and no
\* removal.
C3_ReleaseOrder ==
    Released =>
        /\ \E k \in 1 .. Len(events) :
             /\ events[k] = "write exit 0"
             /\ \A i \in 1 .. (k - 1) : events[i] \in {"run", "write echo Hi", "exec"}
             /\ \A i \in (k + 1) .. Len(events) : events[i] # "write exit 0"
        /\ \A i \in 1 .. Len(events) :
             /\ events[i] = "kill" =>
                  /\ i > 1 /\ events[i - 1] = "communicate timeout"
                  /\ runner.waited > ExitTimeout
             /\ IsRm(events[i]) =>
                  /\ i > 1 /\ events[i - 1] = "kill"
                  /\ runner.auto_clean_up
        /\ (runner.waited >= 0 /\ runner.waited <= ExitTimeout) =>
             /\ ~Has(events, "kill")
             /\ ~HasRm(events)
             /\ events[Len(events)] = "communicate"

C3_Witness ==
    /\ runner.phase = "released"
    /\ Has(events, "kill")
    /\ ~HasRm(events)
    /\ ~runner.auto_clean_up

\* C4 as stated: after release has returned the docker client process has
\* been waited on, on the timeout path too.
C4_Claim_ProcessReapedAfterRelease ==
    runner.phase = "released" => runner.reaped

\* C5 as stated: when acquire fails, the error reaching the caller is the
\* acquire failure itself, whatever became of the cleanup's docker rm -f.
C5_Claim_CleanupNeverReplacesError ==
    runner.phase = "enter_raised" => runner.raised \in AcquireErrors


(***************************************************************************)
(* Properties of the file streams, checked under SpecFile (C6, C8, C9,     *)
(* C10) and SpecRoundTrip (C7).                                            *)
(***************************************************************************)

\* The file an open call named: the joined path, seen from the container's
\* default directory.
NamedFile(st) == Components(DefaultCwd) \o Components(st.path)

NoRegularFileAt(t) == t \notin Targets \/ fs[t].kind # "file"

HasCmd(cmds, name) == \E i \in 1 .. Len(cmds) : cmds[i].cmd = name

\* C6: entering the scope of a read-mode stream whose path names no regular
\* file (nothing there, or a directory), opened with or without a working
\* directory, raises FileNotFoundError; no cat process was started by
\* that call or before it, and nothing was read.
C6_ReadOpenOfMissingFileFailsBeforeCat ==
    (/\ call.op = "enter"
     /\ io[call.id].mode = "rb"
     /\ NoRegularFileAt(NamedFile(io[call.id]))) =>
        /\ call.result = "FileNotFoundError"
        /\ ~HasCmd(call.cmds, "cat")
        /\ HasCmd(call.cmds, "test -f")
        /\ io[call.id].spawned = 0
        /\ io[call.id].proc = NoProc
        /\ io[call.id].got = << >>

C6_Witness ==
    /\ call.op = "enter"
    /\ call.result = "FileNotFoundError"
    /\ io[1].cwd # None
    /\ io[1].proc = NoProc

\* C7: every write that returned gave back the length of its data; and when
\* a read-mode stream, entered after the write-mode stream on the same path
\* was closed, has returned from a whole-file read, the data its reads
\* returned since it was entered (sized reads, then the whole-file read)
\* are together the data of the writer's writes, in order.
C7_RoundTrip ==
    /\ \A w \in StreamIds :
         /\ Len(io[w].returned) = Len(io[w].wrote)
         /\ \A i \in 1 .. Len(io[w].wrote) :
              io[w].returned[i] = Len(io[w].wrote[i])
    /\ \A w, r \in StreamIds :
         (/\ io[w].mode = "wb"
          /\ io[r].mode = "rb"
          /\ io[r].drained
          /\ w \in io[r].after) =>
            Flatten(io[r].got) = Flatten(io[w].wrote)

C7_Witness ==
    /\ io[2].drained
    /\ 1 \in io[2].after
    /\ io[1].wrote = << <<1>>, <<2>> >>
    /\ io[2].got = << <<1>>, <<2>> >>

\* C8 as stated: an instance starts at most one subprocess, however often
\* its scope is entered.
C8_Claim_SingleUse == \A s \in StreamIds : io[s].spawned <= 1

\* C9: of the calls on a read-mode stream only the whole-file read reports
\* a non-zero exit code, as FileNotFoundError carrying the process's
\* stderr, and it succeeds only on exit code 0; a sized read on an open
\* pipe and the scope exit succeed whatever the exit code is.
C9_ExitCodeReportedOnlyByWholeRead ==
    /\ (call.op = "read" /\ call.result = "FileNotFoundError") =>
         /\ call.whole
         /\ io[call.id].proc.returncode \notin {0, NoRc}
         /\ call.detail = io[call.id].proc.stderr
    /\ (call.op = "read" /\ call.whole /\ call.result = "ok") =>
         io[call.id].proc.returncode = 0
    /\ (/\ call.op = "read"
        /\ ~call.whole
        /\ io[call.id].mode = "rb"
        /\ io[call.id].proc.stdout = "open") =>
         call.result = "ok"
    /\ (call.op = "exit" /\ io[call.id].proc # NoProc) =>
         call.result = "ok"

C9_Witness ==
    /\ call.op = "exit"
    /\ call.result = "ok"
    /\ call.scope = "open"
    /\ io[1].mode = "rb"
    /\ ~io[1].drained
    /\ io[1].proc.returncode = 1
    /\ io[1].proc.stderr # ""

\* C10 as stated: write raises the invalid-state error (ValueError) unless
\* the stream is in write mode and its scope is open, read raises it unless
\* the stream is in read mode and its scope is open; the failed call
\* transfers nothing.
C10_Claim_InvalidStateOutsideScope ==
    /\ (/\ call.op = "write"
        /\ (io[call.id].mode # "wb" \/ call.scope # "open")) =>
         (call.result = "ValueError" /\ call.n = 0)
    /\ (/\ call.op = "read"
        /\ (io[call.id].mode # "rb" \/ call.scope # "open")) =>
         (call.result = "ValueError" /\ call.n = 0)

(***************************************************************************)
(* DockerRunnerUserView and DockerRunner.get_home_dir                      *)
(***************************************************************************)

\* The users views are made for: two users of the image and a name the
\* image does not know.
KnownUsers == {"root", "basicuser"}
Users == KnownUsers \cup {"ghost"}

\* workdir=None
NoWorkdir == "<None>"

\* The home directories /etc/passwd may give a user; basicuser's can be
\* moved while the container runs, to a directory that does not exist.
HomeChoices(user) ==
    IF user = "root" THEN {"/root"} ELSE {"/home/basicuser", "/nonexistent"}

\* The directories callers name: existing ones, a symbolic link to /tmp, a
\* missing one, a relative one, and the empty string.
WorkdirArgs ==
    {"/root", "/home/basicuser", "/tmp", "/link", "/nonexistent", "sub", ""}

\* What "docker exec -u user [-w workdir] name pwd" prints, run with
\* check=True and stripped: without -w (workdir is "") the image's working
\* directory; the physical path of an existing directory the user may
\* enter; otherwise the command fails.
pwd(user, workdir) ==
    IF user \notin KnownUsers THEN [rc |-> 126, out |-> ""]
    ELSE IF workdir = "" THEN [rc |-> 0, out |-> "/"]
    ELSE IF workdir = "/link" THEN [rc |-> 0, out |-> "/tmp"]
    ELSE IF workdir \in {"/tmp", "/home/basicuser"}
      THEN [rc |-> 0, out |-> workdir]
    ELSE IF workdir = "/root" /\ user = "root" THEN [rc |-> 0, out |-> workdir]
    ELSE [rc |-> 126, out |-> ""]

\* functools.cache of get_home_dir before the first call for a user.
NotCached == "<not cached>"

\* A faulty variant of get_home_dir: no memoisation, every call runs the command.
get_home_dir_Uncached(cache, homes, user) ==
    IF user \notin KnownUsers
      THEN [result |-> "CalledProcessError", value |-> "", ran |-> TRUE,
            cache |-> cache]
      ELSE [result |-> "ok", value |-> homes[user], ran |-> TRUE,
            cache |-> [cache EXCEPT ![user] = homes[user]]]

\* DockerRunner.get_home_dir under @cache: a hit returns the stored value;
\* a miss runs sh -c 'echo ~' as the user with check=True, and stores the
\* stripped output unless the command failed.
get_home_dir(cache, homes, user) ==
    IF cache[user] # NotCached
      THEN [result |-> "ok", value |-> cache[user], ran |-> FALSE,
            cache |-> cache]
    ELSE IF user \notin KnownUsers
      THEN [result |-> "CalledProcessError", value |-> "", ran |-> TRUE,
            cache |-> cache]
      ELSE [result |-> "ok", value |-> homes[user], ran |-> TRUE,
            cache |-> [cache EXCEPT ![user] = homes[user]]]

\* A DockerRunnerUserView: _username and _cwd, with how it was made
\* (`given`: with a workdir) and whether a chdir succeeded since (`moved`).
ViewObj(user, cwd, given) ==
    [made |-> TRUE, user |-> user, cwd |-> cwd, given |-> given,
     moved |-> FALSE]

NoViewObj ==
    [made |-> FALSE, user |-> "", cwd |-> "", given |-> FALSE, moved |-> FALSE]

\* A faulty variant of View_init: a given workdir is stored as it is.
View_init_TrustWorkdir(cache, homes, user, workdir) ==
    IF workdir = NoWorkdir
      THEN LET h == get_home_dir(cache, homes, user)
           IN  [result |-> h.result, ran |-> h.ran, cache |-> h.cache,
                obj |-> IF h.result = "ok"
                          THEN ViewObj(user, h.value, FALSE) ELSE NoViewObj]
      ELSE [result |-> "ok", ran |-> FALSE, cache |-> cache,
            obj |-> ViewObj(user, workdir, TRUE)]

\* DockerRunnerUserView.__init__ (through DockerRunner.use_as)
View_init(cache, homes, user, workdir) ==
    IF workdir = NoWorkdir
      THEN LET h == get_home_dir(cache, homes, user)
           IN  [result |-> h.result, ran |-> h.ran, cache |-> h.cache,
                obj |-> IF h.result = "ok"
                          THEN ViewObj(user, h.value, FALSE) ELSE NoViewObj]
      ELSE LET p == pwd(user, workdir)
           IN  [result |-> IF p.rc = 0 THEN "ok" ELSE "CalledProcessError",
                ran |-> FALSE, cache |-> cache,
                obj |-> IF p.rc = 0
                          THEN ViewObj(user, p.out, TRUE) ELSE NoViewObj]

\* DockerRunnerUserView.run: the user and directory the command runs with.
View_run(v, workdir) ==
    [obj |-> v,
     user |-> v.user,
     workdir |-> IF workdir # NoWorkdir THEN workdir ELSE v.cwd]

\* open, copy_to, makedirs, write_file and read_file of the view: each works
\* as the view's user in the view's directory.
FileOps == {"open", "copy_to", "makedirs", "write_file", "read_file"}
View_fileop(v, op) == [obj |-> v, user |-> v.user, workdir |-> v.cwd]

\* A faulty variant of View_chdir: the new directory is stored before pwd has run.
View_chdir_AssignFirst(v, new_dir) ==
    LET p == pwd(v.user, new_dir)
    IN  [result |-> IF p.rc = 0 THEN "ok" ELSE "CalledProcessError",
         obj |-> [v EXCEPT !.cwd = IF p.rc = 0 THEN p.out ELSE new_dir,
                           !.moved = TRUE]]

\* DockerRunnerUserView.chdir: pwd is run in new_dir with check=True, then
\* its output is stored.
View_chdir(v, new_dir) ==
    LET p == pwd(View_run(v, new_dir).user, View_run(v, new_dir).workdir)
    IN  IF p.rc # 0
          THEN [result |-> "CalledProcessError", obj |-> v]
          ELSE [result |-> "ok", obj |-> [v EXCEPT !.cwd = p.out, !.moved = TRUE]]

\* One call on the runner or the view, as the caller saw it: its result,
\* the value returned, whether the home lookup command was run, whether
\* get_home_dir had returned for that user before, and the view's directory
\* before the call.
ViewCall(op, user, arg, result, value, ran, known, before) ==
    [op |-> op, user |-> user, arg |-> arg, result |-> result,
     value |-> value, ran |-> ran, known |-> known, before |-> before]

NoViewCall == ViewCall("none", "", "", "ok", "", FALSE, FALSE, "")

\* The state of the views' world: the homes /etc/passwd gives, the cache of
\* get_home_dir, per user the number of home lookups that were run and
\* succeeded (2 for two or more) and the first value get_home_dir
\* returned, the view, and the last call.
ViewWorld(homes, cache, looked, first, obj, last) ==
    [homes |-> homes, cache |-> cache, looked |-> looked, first |-> first,
     obj |-> obj, last |-> last]

\* The lookups counted and the first result kept, after a call of
\* get_home_dir for `user` that gave `h`.
Looked(w, user, h) ==
    IF h.result = "ok" /\ h.ran
      THEN [w.looked EXCEPT ![user] = IF @ >= 2 THEN 2 ELSE @ + 1]
      ELSE w.looked

First(w, user, h) ==
    IF h.result = "ok" /\ w.first[user] = NotCached
      THEN [w.first EXCEPT ![user] = h.value]
      ELSE w.first

\* An acquired runner, no view made yet, nothing looked up.
InitView ==
    /\ runner = [NewRunner(TRUE, FALSE) EXCEPT !.process = "running",
                                               !.phase = "in_scope"]
    /\ container = Launched("--rm")
    /\ events = <<"run", "write echo Hi">>
    /\ lastrc = -1
    /\ fs = [t \in Targets |-> NoFile]
    /\ io = [s \in StreamIds |-> NoStream]
    /\ call = NoCall
    /\ \E home \in HomeChoices("basicuser") :
         view = ViewWorld([u \in KnownUsers |->
                             IF u = "root" THEN "/root" ELSE home],
                          [u \in Users |-> NotCached],
                          [u \in Users |-> 0],
                          [u \in Users |-> NotCached],
                          NoViewObj, NoViewCall)
    /\ tree = NoTree
    /\ pure = NoPure

\* DockerRunner.get_home_dir called directly.
GetHomeDir ==
    /\ \E user \in Users :
         LET h == get_home_dir(view.cache, view.homes, user)
         IN  view' = [view EXCEPT
                        !.cache = h.cache,
                        !.looked = Looked(view, user, h),
                        !.first = First(view, user, h),
                        !.last = ViewCall("get_home_dir", user, "", h.result,
                                          h.value, h.ran,
                                          view.first[user] # NotCached,
                                          view.obj.cwd)]
    /\ UNCHANGED <<runnerVars, fileVars, tree, pure>>

\* DockerRunner.use_as: a new view replaces the one followed.
UseAs ==
    /\ \E user \in Users, workdir \in WorkdirArgs \cup {NoWorkdir} :
         LET i == View_init(view.cache, view.homes, user, workdir)
             h == [result |-> i.result, ran |-> i.ran, value |-> i.obj.cwd]
         IN  view' = [view EXCEPT
                        !.cache = i.cache,
                        !.looked = IF workdir = NoWorkdir
                                     THEN Looked(view, user, h) ELSE @,
                        !.first = IF workdir = NoWorkdir
                                    THEN First(view, user, h) ELSE @,
                        !.obj = IF i.result = "ok" THEN i.obj ELSE @,
                        !.last = ViewCall("use_as", user, workdir, i.result,
                                          i.obj.cwd, i.ran,
                                          view.first[user] # NotCached,
                                          view.obj.cwd)]
    /\ UNCHANGED <<runnerVars, fileVars, tree, pure>>

\* DockerRunnerUserView.run, with and without a workdir of its own; the
\* command succeeds or fails.
ViewRun ==
    /\ view.obj.made
    /\ \E workdir \in WorkdirArgs \cup {NoWorkdir}, result \in {"ok", "failed"} :
         LET r == View_run(view.obj, workdir)
         IN  view' = [view EXCEPT
                        !.obj = r.obj,
                        !.last = ViewCall("run", r.user, r.workdir, result, "",
                                          FALSE, FALSE, view.obj.cwd)]
    /\ UNCHANGED <<runnerVars, fileVars, tree, pure>>

\* open, copy_to, makedirs, write_file or read_file of the view.
ViewFileOp ==
    /\ view.obj.made
    /\ \E op \in FileOps, result \in {"ok", "failed"} :
         LET r == View_fileop(view.obj, op)
         IN  view' = [view EXCEPT
                        !.obj = r.obj,
                        !.last = ViewCall(op, r.user, r.workdir, result, "",
                                          FALSE, FALSE, view.obj.cwd)]
    /\ UNCHANGED <<runnerVars, fileVars, tree, pure>>

\* DockerRunnerUserView.chdir
Chdir ==
    /\ view.obj.made
    /\ \E new_dir \in WorkdirArgs :
         LET c == View_chdir(view.obj, new_dir)
         IN  view' = [view EXCEPT
                        !.obj = c.obj,
                        !.last = ViewCall("chdir", view.obj.user, new_dir,
                                          c.result, "", FALSE, FALSE,
                                          view.obj.cwd)]
    /\ UNCHANGED <<runnerVars, fileVars, tree, pure>>

\* The container's /etc/passwd is edited: basicuser's home changes.
HomeMoves ==
    /\ \E home \in HomeChoices("basicuser") \ {view.homes["basicuser"]} :
         view' = [view EXCEPT !.homes["basicuser"] = home]
    /\ UNCHANGED <<runnerVars, fileVars, tree, pure>>

NextView ==
    \/ GetHomeDir
    \/ UseAs
    \/ ViewRun
    \/ ViewFileOp
    \/ Chdir
    \/ HomeMoves

SpecView == InitView /\ [][NextView]_vars

(***************************************************************************)
(* Properties of the views, checked under SpecView.                        *)
(***************************************************************************)

\* What pwd can print for a user.
PwdOutputs(user) ==
    {pwd(user, d).out : d \in {x \in WorkdirArgs : pwd(user, x).rc = 0}}

\* C11: run (with a workdir of its own or without), open, copy_to, makedirs,
\* write_file and read_file leave the view's directory as it was before the
\* call, whether they succeed or fail; a chdir whose pwd fails raises
\* CalledProcessError and leaves it as it was.
C11_CwdChangesOnlyThroughChdir ==
    /\ (view.last.op \in FileOps \cup {"run", "get_home_dir"}) =>
         view.obj.cwd = view.last.before
    /\ (view.last.op = "chdir" /\ pwd(view.obj.user, view.last.arg).rc # 0) =>
         (view.last.result = "CalledProcessError"
          /\ view.obj.cwd = view.last.before)
    /\ (view.last.op = "chdir" /\ view.last.result # "ok") =>
         view.obj.cwd = view.last.before

C11_Witness ==
    /\ view.last.op = "chdir"
    /\ view.last.result = "CalledProcessError"
    /\ view.obj.moved
    /\ view.obj.cwd = "/tmp"
    /\ view.last.before = "/tmp"

\* C12 as stated: the directory of every view, made with or without a
\* workdir, is a path pwd prints as the view's user.
C12_Original_CwdIsPwdOutput ==
    view.obj.made => view.obj.cwd \in PwdOutputs(view.obj.user)

\* C12 amended: the directory of a view made with a workdir, or moved by a
\* chdir, is what pwd printed as the view's user; that of a view made
\* without a workdir and not moved since is the home get_home_dir first
\* returned for the user, which no pwd has looked at.
C12_CwdIsPwdOutputOrHome ==
    view.obj.made =>
        IF view.obj.given \/ view.obj.moved
          THEN view.obj.cwd \in PwdOutputs(view.obj.user)
          ELSE view.obj.cwd = view.first[view.obj.user]

C12_Witness ==
    /\ view.obj.made
    /\ ~view.obj.given
    /\ view.obj.moved
    /\ view.last.op = "chdir"
    /\ view.last.arg = "/link"
    /\ view.obj.cwd = "/tmp"

\* C15: for each user the home lookup command is run successfully at most
\* once; every successful get_home_dir, called directly or by a view made
\* without a workdir, returns the value the first one returned, and runs
\* no command once one has returned; the value is a home of that user.
C15_HomeLookedUpOncePerUser ==
    /\ \A u \in Users :
         /\ view.looked[u] <= 1
         /\ view.first[u] # NotCached =>
              (view.looked[u] = 1 /\ view.first[u] \in HomeChoices(u))
    /\ (/\ \/ view.last.op = "get_home_dir"
            \/ (view.last.op = "use_as" /\ view.last.arg = NoWorkdir)
        /\ view.last.result = "ok") =>
         /\ view.last.value = view.first[view.last.user]
         /\ view.last.known => ~view.last.ran

C15_Witness ==
    /\ view.last.op = "use_as"
    /\ view.last.arg = NoWorkdir
    /\ view.last.result = "ok"
    /\ view.last.known
    /\ view.last.user = "basicuser"
    /\ view.last.value = "/home/basicuser"
    /\ view.homes["basicuser"] = "/nonexistent"

(***************************************************************************)
(* makedirs and the directory branch of DockerRunnerUserView.copy_to, on   *)
(* the container's directory tree.                                         *)
(***************************************************************************)

\* The paths followed, as names below the directory the commands run in:
\* a destination d, and what a copy puts into it.
TreePaths ==
    {<<"d">>, <<"d", "sub">>, <<"d", "top.txt">>, <<"d", "sub", "mid.txt">>}

\* A node of the tree: absent, a directory or a file, its owner, and whether
\* every user may write to it (as to /tmp).
NoNode == [kind |-> "absent", owner |-> "", open |-> FALSE]
DirNode(owner, open) == [kind |-> "dir", owner |-> owner, open |-> open]
FileNode(owner) == [kind |-> "file", owner |-> owner, open |-> FALSE]

\* The directory the commands run in exists and takes entries from anyone.
BaseNode == DirNode("root", TRUE)

Lookup(nodes, p) ==
    IF p = << >> THEN BaseNode
    ELSE IF p \in TreePaths THEN nodes[p]
    ELSE NoNode

Parent(p) == SubSeq(p, 1, Len(p) - 1)

\* Whether `user` may create and remove entries of the directory `node`.
CanWrite(user, node) ==
    node.kind = "dir" /\ (user = "root" \/ node.owner = user \/ node.open)

\* "mkdir path" as `user`: the exit code and the tree it leaves.
mkdir(nodes, user, p) ==
    IF /\ p \in TreePaths
       /\ Lookup(nodes, p).kind = "absent"
       /\ CanWrite(user, Lookup(nodes, Parent(p)))
      THEN [rc |-> 0, nodes |-> [nodes EXCEPT ![p] = DirNode(user, FALSE)]]
      ELSE [rc |-> 1, nodes |-> nodes]

\* "mkdir -p path" as `user`: every missing directory on the way is made,
\* an existing directory is passed, anything else stops it.
RECURSIVE mkdir_p_from(_, _, _, _)
mkdir_p_from(nodes, user, p, k) ==
    IF k > Len(p) THEN [rc |-> 0, nodes |-> nodes]
    ELSE LET q == SubSeq(p, 1, k)
         IN  IF Lookup(nodes, q).kind = "dir"
               THEN mkdir_p_from(nodes, user, p, k + 1)
             ELSE LET m == mkdir(nodes, user, q)
                  IN  IF m.rc # 0 THEN m
                      ELSE mkdir_p_from(m.nodes, user, p, k + 1)

mkdir_p(nodes, user, p) == mkdir_p_from(nodes, user, p, 1)

\* user=None, and the user a docker exec without -u runs as.
NoUser == "<default>"
DefaultUser == "root"

\* A faulty variant of Runner_makedirs: -p is passed whatever exist_ok is.
Runner_makedirs_AlwaysP(nodes, path, user, exist_ok) ==
    LET m == mkdir_p(nodes, IF user = NoUser THEN DefaultUser ELSE user, path)
    IN  [result |-> IF m.rc # 0 THEN "CalledProcessError" ELSE "ok",
         nodes |-> m.nodes]

\* DockerRunner.makedirs: mkdir, with -p when exist_ok, run with check=True.
Runner_makedirs(nodes, path, user, exist_ok) ==
    LET u == IF user = NoUser THEN DefaultUser ELSE user
        m == IF exist_ok THEN mkdir_p(nodes, u, path) ELSE mkdir(nodes, u, path)
    IN  [result |-> IF m.rc # 0 THEN "CalledProcessError" ELSE "ok",
         nodes |-> m.nodes]

\* DockerRunnerUserView.makedirs: the same command, run as the view's user.
View_makedirs(nodes, username, path, exist_ok) ==
    LET m == IF exist_ok THEN mkdir_p(nodes, username, path)
             ELSE mkdir(nodes, username, path)
    IN  [result |-> IF m.rc # 0 THEN "CalledProcessError" ELSE "ok",
         nodes |-> m.nodes]

\* The host directory that is copied: a file, a directory and a file in it,
\* as tarfile.add walks them, each with the host owner's ids and names.
HostOwner == [uid |-> 1000, gid |-> 1000, uname |-> "dev", gname |-> "dev"]

TarInfo(name, kind) ==
    [name |-> name, kind |-> kind, uid |-> HostOwner.uid,
     gid |-> HostOwner.gid, uname |-> HostOwner.uname,
     gname |-> HostOwner.gname]

HostItems ==
    << <<TarInfo(<<"top.txt">>, "file")>>,
       <<TarInfo(<<"sub">>, "dir"), TarInfo(<<"sub", "mid.txt">>, "file")>> >>

\* A faulty variant of strip_user_group: the host's owner is kept.
strip_user_group_Keep(tarinfo) == tarinfo

\* _strip_user_group, the filter of every tar.add
strip_user_group(tarinfo) ==
    [tarinfo EXCEPT !.uid = 0, !.gid = 0, !.uname = "", !.gname = ""]

\* tar.add(item, arcname=item.name, filter=...): the item and, for a
\* directory, everything below it, each passed through the filter.
tar_add(item) == [i \in 1..Len(item) |-> strip_user_group(item[i])]

\* The archive streamed for the directory: tar.add of every item.
RECURSIVE Archive(_, _)
Archive(items, k) ==
    IF k > Len(items) THEN << >>
    ELSE tar_add(items[k]) \o Archive(items, k + 1)

\* The container's user an extracted entry belongs to when tar runs as
\* root: the named user if the container knows the name, else the user
\* with the numeric id (0 is root, the host's id is basicuser's).
EntryOwner(e) ==
    IF e.uname \in KnownUsers THEN e.uname
    ELSE IF e.uid = 0 THEN "root" ELSE "basicuser"

\* tar -x of one entry at path p as `user`; `strict` says whether this
\* tar counts a directory whose metadata it may not restore as an error.
\* Only root restores the owner recorded in the archive.  A file replaces
\* the file that is there; nothing replaces an entry of the other kind.
extract_one(nodes, user, p, e, strict) ==
    LET old == Lookup(nodes, p)
        want == IF user = "root" THEN EntryOwner(e) ELSE user
        made == IF e.kind = "dir" THEN DirNode(want, FALSE)
                ELSE FileNode(want)
    IN  IF p \notin TreePaths THEN [err |-> TRUE, nodes |-> nodes]
        ELSE IF e.kind = "dir" /\ old.kind = "dir"
          THEN IF user = "root"
                 THEN [err |-> FALSE,
                       nodes |-> [nodes EXCEPT ![p].owner = want]]
               ELSE [err |-> old.owner # user /\ strict, nodes |-> nodes]
        ELSE IF old.kind \in {"absent", e.kind} \ {"dir"}
                /\ CanWrite(user, Lookup(nodes, Parent(p)))
          THEN [err |-> FALSE, nodes |-> [nodes EXCEPT ![p] = made]]
        ELSE [err |-> TRUE, nodes |-> nodes]

\* "tar -C dest -xzf -" as `user`: every entry in turn; an entry that
\* fails is skipped and makes the exit code non-zero.
RECURSIVE extract_from(_, _, _, _, _, _)
extract_from(nodes, user, dest, entries, strict, k) ==
    IF k > Len(entries) THEN [rc |-> 0, nodes |-> nodes]
    ELSE LET x == extract_one(nodes, user, dest \o entries[k].name,
                              entries[k], strict)
             rest == extract_from(x.nodes, user, dest, entries, strict, k + 1)
         IN  [rc |-> IF x.err THEN 2 ELSE rest.rc, nodes |-> rest.nodes]

tar_extract(nodes, user, dest, entries, strict) ==
    IF Lookup(nodes, dest).kind # "dir" THEN [rc |-> 2, nodes |-> nodes]
    ELSE extract_from(nodes, user, dest, entries, strict, 1)

\* What a host path can be.
SrcKinds == {"missing", "dir", "file"}

\* self.open(dest, "wb") and the writes: tee creates or truncates the file
\* if the user may; a tee that could not is only noticed (`noticed`) if a
\* write meets the closed pipe.
write_through(nodes, user, dest, noticed) ==
    LET old == Lookup(nodes, dest)
    IN  IF dest \in TreePaths /\ old.kind = "file"
           /\ (user = "root" \/ old.owner = user)
          THEN [result |-> "ok", nodes |-> nodes]
        ELSE IF dest \in TreePaths /\ old.kind = "absent"
                /\ CanWrite(user, Lookup(nodes, Parent(dest)))
          THEN [result |-> "ok",
                nodes |-> [nodes EXCEPT ![dest] = FileNode(user)]]
        ELSE [result |-> IF noticed THEN "BrokenPipeError" ELSE "ok",
              nodes |-> nodes]

\* DockerRunnerUserView.copy_to.  The result, the tree it leaves and the
\* tar entries it streamed.
View_copy_to(nodes, username, src, dest, makedirs, strict, noticed) ==
    IF src = "missing"
      THEN [result |-> "FileNotFoundError", nodes |-> nodes, entries |-> << >>]
    ELSE IF src = "dir"
      THEN LET m == mkdir_p(nodes, username, dest)
               entries == Archive(HostItems, 1)
               x == tar_extract(m.nodes, username, dest, entries, strict)
           IN  IF m.rc # 0
                 THEN [result |-> "CalledProcessError", nodes |-> m.nodes,
                       entries |-> << >>]
               ELSE [result |-> IF x.rc # 0 THEN "RuntimeError" ELSE "ok",
                     nodes |-> x.nodes, entries |-> entries]
    ELSE LET m == IF makedirs
                    THEN View_makedirs(nodes, username, Parent(dest), TRUE)
                  ELSE [result |-> "ok", nodes |-> nodes]
             w == write_through(m.nodes, username, dest, noticed)
         IN  IF m.result # "ok"
               THEN [result |-> m.result, nodes |-> m.nodes,
                     entries |-> << >>]
             ELSE [result |-> w.result, nodes |-> w.nodes, entries |-> << >>]

\* One call on the tree, as it is recorded for the properties.
TreeCall(op, user, path, exist_ok, src, result, entries) ==
    [op |-> op, user |-> user, path |-> path, exist_ok |-> exist_ok,
     src |-> src, result |-> result, entries |-> entries]

NoTreeCall == TreeCall("none", "", << >>, FALSE, "", "", << >>)

\* The view's user, the tree, the tree before the last call, the last call
\* and the paths on which a makedirs had succeeded before it.
TreeWorld(user, nodes, before, last, made) ==
    [user |-> user, nodes |-> nodes, before |-> before, last |-> last,
     made |-> made]

\* The paths on which a makedirs has succeeded, the last call included.
Made ==
    IF tree.last.op \in {"makedirs", "view.makedirs"}
       /\ tree.last.result = "ok"
      THEN tree.made \cup {tree.last.path}
      ELSE tree.made

\* The trees a container can start with: nothing there, or the destination
\* there, with or without its subdirectory, owned by either user.
InitialTrees ==
    LET empty == [p \in TreePaths |-> NoNode]
    IN  {empty}
        \cup {[empty EXCEPT ![<<"d">>] = DirNode(o, w)] :
                 o \in KnownUsers, w \in BOOLEAN}
        \cup {[empty EXCEPT ![<<"d">>] = DirNode(o, w),
                            ![<<"d", "sub">>] = DirNode(s, TRUE)] :
                 o \in KnownUsers, w \in BOOLEAN, s \in KnownUsers}

\* Where a host directory and a host file are copied to.
CopyDest(src) == IF src = "dir" THEN <<"d">> ELSE <<"d", "top.txt">>

InitTree ==
    /\ tree \in {TreeWorld(u, n, n, NoTreeCall, {}) :
                    u \in KnownUsers, n \in InitialTrees}
    /\ runner = [NewRunner(TRUE, FALSE) EXCEPT !.process = "running",
                                               !.phase = "in_scope"]
    /\ container = Launched("--rm")
    /\ events = <<"run", "write echo Hi">>
    /\ lastrc = -1
    /\ fs = [t \in Targets |-> NoFile]
    /\ io = [s \in StreamIds |-> NoStream]
    /\ call = NoCall
    /\ view = NoView
    /\ pure = NoPure

\* runner.makedirs(path, user=..., exist_ok=...)
Makedirs ==
    \E path \in TreePaths, user \in {NoUser} \cup KnownUsers,
       exist_ok \in BOOLEAN :
        LET m == Runner_makedirs(tree.nodes, path, user, exist_ok)
        IN  /\ tree' = TreeWorld(tree.user, m.nodes, tree.nodes,
                                 TreeCall("makedirs",
                                          IF user = NoUser THEN DefaultUser
                                          ELSE user,
                                          path, exist_ok, "", m.result,
                                          << >>),
                                 Made)
            /\ UNCHANGED <<runnerVars, fileVars, view, pure>>

\* view.makedirs(path, exist_ok=...)
ViewMakedirs ==
    \E path \in TreePaths, exist_ok \in BOOLEAN :
        LET m == View_makedirs(tree.nodes, tree.user, path, exist_ok)
        IN  /\ tree' = TreeWorld(tree.user, m.nodes, tree.nodes,
                                 TreeCall("view.makedirs", tree.user, path,
                                          exist_ok, "", m.result, << >>),
                                 Made)
            /\ UNCHANGED <<runnerVars, fileVars, view, pure>>

\* view.copy_to(src, dest, makedirs=...)
CopyTo ==
    \E src \in SrcKinds, makedirs \in BOOLEAN :
      \E strict \in IF src = "dir" THEN BOOLEAN ELSE {FALSE},
         noticed \in IF src = "file" THEN BOOLEAN ELSE {FALSE} :
        LET c == View_copy_to(tree.nodes, tree.user, src, CopyDest(src),
                              makedirs, strict, noticed)
        IN  /\ tree' = TreeWorld(tree.user, c.nodes, tree.nodes,
                                 TreeCall("copy_to", tree.user, CopyDest(src),
                                          makedirs, src, c.result, c.entries),
                                 Made)
            /\ UNCHANGED <<runnerVars, fileVars, view, pure>>

NextTree == Makedirs \/ ViewMakedirs \/ CopyTo

SpecTree == InitTree /\ [][NextTree]_vars

\* C13: makedirs with exist_ok false on a path that exists raises
\* CalledProcessError and changes nothing; makedirs with exist_ok true on
\* a directory that exists, as after an earlier call for the same path,
\* succeeds and leaves the directory as it was.
C13_MakedirsExistOk ==
    tree.last.op \in {"makedirs", "view.makedirs"} =>
        LET old == tree.before[tree.last.path]
        IN  /\ (~tree.last.exist_ok /\ old.kind # "absent")
                  => /\ tree.last.result = "CalledProcessError"
                     /\ tree.nodes = tree.before
            /\ (tree.last.exist_ok /\ old.kind = "dir")
                  => /\ tree.last.result = "ok"
                     /\ tree.nodes = tree.before

\* A makedirs with exist_ok true is repeated by another user on a path an
\* earlier makedirs made, and succeeds.
C13_Witness ==
    /\ tree.last.op = "view.makedirs"
    /\ tree.last.exist_ok
    /\ tree.last.path = <<"d", "sub">>
    /\ tree.last.path \in tree.made
    /\ tree.before[tree.last.path].owner # tree.user
    /\ tree.last.result = "ok"

\* The destination of the last copy and everything the archive named in it.
CopiedPaths ==
    {tree.last.path}
    \cup {tree.last.path \o tree.last.entries[k].name :
             k \in 1..Len(tree.last.entries)}

CopiedDirectory ==
    /\ tree.last.op = "copy_to"
    /\ tree.last.src = "dir"
    /\ tree.last.result = "ok"

Stripped(e) == e.uid = 0 /\ e.gid = 0 /\ e.uname = "" /\ e.gname = ""

\* C14 as stated: after a directory is copied, the destination and every
\* copied file and subdirectory is owned by the view's user, and every tar
\* entry streamed has its owner and group stripped.
C14_Original_EverythingOwnedByViewUser ==
    /\ CopiedDirectory =>
         \A p \in CopiedPaths : /\ tree.nodes[p].kind # "absent"
                                /\ tree.nodes[p].owner = tree.user
    /\ \A k \in 1..Len(tree.last.entries) : Stripped(tree.last.entries[k])

\* C14, amended: every tar entry streamed has its owner and group
\* stripped, and after a directory is copied the destination and every
\* copied file and subdirectory exists and is owned by the view's user,
\* except a directory that was there before the copy, which keeps its
\* owner: the destination always, a subdirectory unless the view is root's.
C14_CopiedOwnedByViewUserUnlessThereBefore ==
    /\ CopiedDirectory =>
         \A p \in CopiedPaths :
            /\ tree.nodes[p].kind # "absent"
            /\ \/ tree.nodes[p].owner = tree.user
               \/ /\ tree.before[p].kind = "dir"
                  /\ tree.nodes[p] = tree.before[p]
                  /\ p = tree.last.path \/ tree.user # "root"
    /\ \A k \in 1..Len(tree.last.entries) : Stripped(tree.last.entries[k])

\* basicuser's view copies the directory to a destination that was not
\* there: the destination, the subdirectory and both files are basicuser's.
C14_Witness ==
    /\ CopiedDirectory
    /\ tree.user = "basicuser"
    /\ tree.before[<<"d">>].kind = "absent"
    /\ Len(tree.last.entries) = 3
    /\ \A p \in TreePaths : tree.nodes[p].owner = "basicuser"
    /\ tree.nodes[<<"d", "sub">>].kind = "dir"
    /\ tree.nodes[<<"d", "sub", "mid.txt">>].kind = "file"

(***************************************************************************)
(* am_common_lib.docker_util.util: get_container_name_base and to_base_54. *)
(* A string is a sequence of one-character strings.                        *)
(***************************************************************************)

\* The longest image name tried.
MaxName == 4

\* string.ascii_letters + string.digits
alnum ==
    <<
      "a", "b", "c", "d", "e", "f", "g", "h", "i", "j", "k", "l", "m",
      "n", "o", "p", "q", "r", "s", "t", "u", "v", "w", "x", "y", "z",
      "A", "B", "C", "D", "E", "F", "G", "H", "I", "J", "K", "L", "M",
      "N", "O", "P", "Q", "R", "S", "T", "U", "V", "W", "X", "Y", "Z",
      "0", "1", "2", "3", "4", "5", "6", "7", "8", "9" >>

Range(s) == {s[i] : i \in DOMAIN s}

\* The position of a character in a sequence that holds it.
IndexOf(s, c) == CHOOSE i \in DOMAIN s : s[i] = c

\* The code point of a character: of the letters and digits, and of the
\* other characters that names are made of here.
Ord(c) ==
    IF c \in Range(alnum)
      THEN LET i == IndexOf(alnum, c)
           IN  IF i <= 26 THEN 96 + i
               ELSE IF i <= 52 THEN 64 + (i - 26)
               ELSE 48 + (i - 53)
    ELSE CASE c = "." -> 46
           [] c = "-" -> 45
           [] c = "_" -> 95
           [] c = ":" -> 58
           [] c = "/" -> 47

\* The characters image names are made of: a letter, a digit, two allowed
\* characters that may not start a name, and two disallowed characters.
NameChars == {"a", "7", ".", "_", ":", "/"}

RECURSIVE SeqsUpTo(_, _)
SeqsUpTo(S, n) ==
    IF n = 0 THEN {<< >>}
    ELSE LET shorter == SeqsUpTo(S, n - 1)
         IN  shorter \cup {Append(s, c) : s \in shorter, c \in S}

Names == SeqsUpTo(NameChars, MaxName)

\* max_length: None, or a number, be it too small, smaller than a name or
\* larger than every name.
MaxLengths == {None} \cup {<<n>> : n \in (0 - 1)..(MaxName + 1)}

\* [A-Za-z0-9_.-]
InClass(c) == c \in Range(alnum) \cup {"_", ".", "-"}

\* re.sub(r"[^A-Za-z0-9_.-]+", "_", s) from position i on: a run of
\* characters outside the class becomes one underscore.
RECURSIVE re_sub(_, _, _)
re_sub(s, i, inRun) ==
    IF i > Len(s) THEN << >>
    ELSE IF InClass(s[i]) THEN <<s[i]>> \o re_sub(s, i + 1, FALSE)
    ELSE IF inRun THEN re_sub(s, i + 1, TRUE)
    ELSE <<"_">> \o re_sub(s, i + 1, TRUE)

\* re.match(r"^[A-Za-z0-9]", s)
re_match_alnum(s) == Len(s) > 0 /\ s[1] \in Range(alnum)

\* zlib.crc32 works on 32 bits, kept here as two halves of 16 bits: <<the
\* high half, the low half>>.
Half == 2 ^ 16

RECURSIVE Xor(_, _)
Xor(a, b) ==
    IF a = 0 THEN b
    ELSE IF b = 0 THEN a
    ELSE ((a + b) % 2) + 2 * Xor(a \div 2, b \div 2)

\* The polynomial of CRC-32, reflected: 0xEDB88320.
CrcPoly == <<60856, 33568>>

Xor32(x, y) == <<Xor(x[1], y[1]), Xor(x[2], y[2])>>

ShiftRight(x) ==
    <<x[1] \div 2, (x[2] \div 2) + (x[1] % 2) * (Half \div 2)>>

RECURSIVE CrcShift(_, _)
CrcShift(crc, n) ==
    IF n = 0 THEN crc
    ELSE CrcShift(IF crc[2] % 2 = 1 THEN Xor32(ShiftRight(crc), CrcPoly)
                  ELSE ShiftRight(crc),
                  n - 1)

RECURSIVE CrcBytes(_, _, _)
CrcBytes(crc, s, i) ==
    IF i > Len(s) THEN crc
    ELSE CrcBytes(CrcShift(Xor32(crc, <<0, Ord(s[i])>>), 8), s, i + 1)

\* zlib.crc32(s.encode("utf-8"))
crc32(s) ==
    Xor32(CrcBytes(<<Half - 1, Half - 1>>, s, 1), <<Half - 1, Half - 1>>)

\* hash_val % m
Mod32(x, m) == ((x[1] % m) * (Half % m) + (x[2] % m)) % m

\* s[-k:]
LastChars(s, k) ==
    IF k = 0 \/ k >= Len(s) THEN s ELSE SubSeq(s, Len(s) - k + 1, Len(s))

\* A faulty variant of get_container_name_base: the name is not given a
\* first character when it lacks a letter or digit to start with.
get_container_name_base_NoPrefix(img_name, max_length) ==
    [result |-> "ok", out |-> re_sub(img_name, 1, FALSE)]

\* get_container_name_base(img_name, max_length)
get_container_name_base(img_name, max_length) ==
    LET sanitized_base == re_sub(img_name, 1, FALSE)
        hash_val_mod == Mod32(crc32(img_name), Len(alnum))
        prefix_char == alnum[hash_val_mod + 1]
        prefixed == <<prefix_char>> \o sanitized_base
    IN  IF re_match_alnum(sanitized_base)
          THEN [result |-> "ok", out |-> sanitized_base]
        ELSE IF max_length = None
          THEN [result |-> "ok", out |-> prefixed]
        ELSE IF max_length[1] < 2
          THEN [result |-> "ValueError", out |-> << >>]
        ELSE IF Len(prefixed) > max_length[1]
          THEN [result |-> "ok",
                out |-> <<prefixed[1]>>
                        \o LastChars(prefixed, max_length[1] - 1)]
        ELSE [result |-> "ok", out |-> prefixed]

\* One call of a function of the module: its arguments, whether it has
\* been made, and what it gave.
PureCall(fn, arg, max_length, called, result, out) ==
    [fn |-> fn, arg |-> arg, max_length |-> max_length, called |-> called,
     result |-> result, out |-> out]

InitName ==
    /\ pure \in {PureCall("get_container_name_base", n, m, FALSE, "", << >>) :
                    n \in Names, m \in MaxLengths}
    /\ runner = NewRunner(TRUE, FALSE)
    /\ container = "absent"
    /\ events = << >>
    /\ lastrc = -1
    /\ fs = [t \in Targets |-> NoFile]
    /\ io = [s \in StreamIds |-> NoStream]
    /\ call = NoCall
    /\ view = NoView
    /\ tree = NoTree

\* get_container_name_base(img_name, max_length) is called
GetContainerNameBase ==
    /\ ~pure.called
    /\ LET r == get_container_name_base(pure.arg, pure.max_length)
       IN  pure' = [pure EXCEPT !.called = TRUE, !.result = r.result,
                                !.out = r.out]
    /\ UNCHANGED <<runnerVars, fileVars, view, tree>>

NextName == GetContainerNameBase

SpecName == InitName /\ [][NextName]_vars

NameCalled == pure.fn = "get_container_name_base" /\ pure.called

\* C16: for every image name and every max_length that is None or at least
\* 2, get_container_name_base returns a name that is not empty, starts
\* with a letter or digit and holds only characters of [A-Za-z0-9_.-].
C16_OutputIsAContainerName ==
    (NameCalled /\ (pure.max_length = None \/ pure.max_length[1] >= 2))
        => /\ pure.result = "ok"
           /\ pure.out # << >>
           /\ pure.out[1] \in Range(alnum)
           /\ \A i \in DOMAIN pure.out : InClass(pure.out[i])

\* A name of disallowed characters only, with max_length 2: a first
\* character and one underscore.
C16_Witness ==
    /\ NameCalled
    /\ pure.arg = <<":", "/">>
    /\ pure.max_length = <<2>>
    /\ pure.result = "ok"
    /\ Len(pure.out) = 2
    /\ pure.out[1] \in Range(alnum)
    /\ pure.out[2] = "_"

\* C17 as stated: for every image name and every max_length of at least 2
\* the name returned is at most max_length long.
C17_Claim_OutputWithinMaxLength ==
    (NameCalled /\ pure.max_length # None /\ pure.result = "ok")
        => (pure.max_length[1] >= 2 => Len(pure.out) <= pure.max_length[1])

\* C18 as stated: for every image name, a max_length below 2 ends in
\* ValueError.
C18_Claim_SmallMaxLengthRaises ==
    (NameCalled /\ pure.max_length # None)
        => (pure.max_length[1] < 2 => pure.result = "ValueError")

\* C19 as stated: for an image name that starts with a letter or digit and
\* no max_length, the name returned is as long as the image name and
\* differs from it only by an underscore at every disallowed character.
C19_Claim_EachCharacterReplaced ==
    (NameCalled /\ pure.max_length = None /\ re_match_alnum(pure.arg))
        => /\ Len(pure.out) = Len(pure.arg)
           /\ \A i \in DOMAIN pure.arg :
                 pure.out[i] = IF InClass(pure.arg[i]) THEN pure.arg[i]
                               ELSE "_"

\* The longest token tried, in bytes.
MaxToken == 2

\* The byte values tokens are made of: around zero, around the size of the
\* alphabet, and the largest.
ByteValues == {0, 1, 2, 53, 54, 55, 127, 128, 254, 255}

Tokens == SeqsUpTo(ByteValues, MaxToken)

\* _generate_charset: the digits and letters but the ambiguous ones,
\* sorted by code point.
ambiguous == {"0", "1", "i", "I", "L", "O", "l", "o"}

generate_charset ==
    LET chars == Range(alnum) \ ambiguous
    IN  [k \in 1..Cardinality(chars) |->
            CHOOSE c \in chars :
                Cardinality({d \in chars : Ord(d) < Ord(c)}) = k - 1]

\* int.from_bytes(token, "big")
RECURSIVE from_bytes(_)
from_bytes(token) ==
    IF token = << >> THEN 0
    ELSE 256 * from_bytes(SubSeq(token, 1, Len(token) - 1))
         + token[Len(token)]

\* The loop of to_base_54: the digits of num, lowest first.
RECURSIVE base_digits(_, _)
base_digits(num, char_set) ==
    IF num > 0
      THEN <<char_set[(num % Len(char_set)) + 1]>>
           \o base_digits(num \div Len(char_set), char_set)
      ELSE << >>

\* reversed(result)
reversed(s) == [i \in 1..Len(s) |-> s[Len(s) + 1 - i]]

\* A faulty variant of to_base_54: the digits are joined lowest first.
to_base_54_NotReversed(token) ==
    IF Len(token) = 0 THEN << >>
    ELSE IF from_bytes(token) = 0 THEN <<generate_charset[1]>>
    ELSE base_digits(from_bytes(token), generate_charset)

\* to_base_54(token)
to_base_54(token) ==
    LET char_set == generate_charset
        num == from_bytes(token)
    IN  IF Len(token) = 0 THEN << >>
        ELSE IF num = 0 THEN <<char_set[1]>>
        ELSE reversed(base_digits(num, char_set))

\* The number a string stands for, read as digits of base 54, highest
\* first, over the alphabet.
RECURSIVE decode_base_54(_)
decode_base_54(s) ==
    IF s = << >> THEN 0
    ELSE Len(generate_charset) * decode_base_54(SubSeq(s, 1, Len(s) - 1))
         + (IndexOf(generate_charset, s[Len(s)]) - 1)

InitBase54 ==
    /\ pure \in {PureCall("to_base_54", t, None, FALSE, "", << >>) :
                    t \in Tokens}
    /\ runner = NewRunner(TRUE, FALSE)
    /\ container = "absent"
    /\ events = << >>
    /\ lastrc = -1
    /\ fs = [t \in Targets |-> NoFile]
    /\ io = [s \in StreamIds |-> NoStream]
    /\ call = NoCall
    /\ view = NoView
    /\ tree = NoTree

\* to_base_54(token) is called
ToBase54 ==
    /\ ~pure.called
    /\ pure' = [pure EXCEPT !.called = TRUE, !.result = "ok",
                            !.out = to_base_54(pure.arg)]
    /\ UNCHANGED <<runnerVars, fileVars, view, tree>>

NextBase54 == ToBase54

SpecBase54 == InitBase54 /\ [][NextBase54]_vars

\* C20: the output of to_base_54, read as a number of base 54 over the
\* alphabet, is the big-endian number of the token; no other token of the
\* same length has the same output; the empty token gives the empty
\* string and a token of zero bytes the first symbol of the alphabet.
C20_Base54IsInjectiveOnEqualLength ==
    (pure.fn = "to_base_54" /\ pure.called)
        => /\ \A i \in DOMAIN pure.out : pure.out[i] \in Range(generate_charset)
           /\ decode_base_54(pure.out) = from_bytes(pure.arg)
           /\ \A t \in Tokens :
                 (Len(t) = Len(pure.arg) /\ to_base_54(t) = pure.out)
                    => t = pure.arg
           /\ pure.arg = << >> <=> pure.out = << >>
           /\ (pure.arg # << >> /\ \A i \in DOMAIN pure.arg : pure.arg[i] = 0)
                 => pure.out = <<"2">>

\* The token of the bytes 1 and 0, the number 256, is encoded as the
\* digits 4 and 40 of base 54.
C20_Witness ==
    /\ pure.fn = "to_base_54"
    /\ pure.called
    /\ pure.arg = <<1, 0>>
    /\ pure.out = <<"6", "k">>
    /\ pure.out = <<generate_charset[5], generate_charset[41]>>
    /\ generate_charset[1] = "2"
    /\ Len(generate_charset) = 54

(***************************************************************************)
(* _devtools._combo_shell.run, beside what bash does with the same command *)
(* string, and the fflint pipeline that is run through it.                 *)
(***************************************************************************)

\* The most words a command string is made of.
MaxWords == 5

\* The words command strings are made of, as they are typed: two commands,
\* the three operators, and an operator in quotes, which is an argument.
Lexemes ==
    {<<"a">>, <<"b">>, <<"&", "&">>, <<"|", "|">>, <<";">>,
     <<"'", "&", "&", "'">>}

\* sep.join(words)
RECURSIVE Join(_, _)
Join(words, sep) ==
    IF words = << >> THEN << >>
    ELSE IF Len(words) = 1 THEN words[1]
    ELSE words[1] \o sep \o Join(Tail(words), sep)

JoinWords(words) == Join(words, <<" ">>)

\* shlex.split(s): words are split at blanks, quotes are taken off and
\* keep blanks inside them; every other character is part of a word.  The
\* scan from position i, with the word begun so far (`started` tells an
\* empty word from none).
RECURSIVE shlex_from(_, _, _, _, _)
shlex_from(s, i, word, started, quoted) ==
    IF i > Len(s) THEN (IF started THEN <<word>> ELSE << >>)
    ELSE IF quoted
      THEN IF s[i] = "'" THEN shlex_from(s, i + 1, word, TRUE, FALSE)
           ELSE shlex_from(s, i + 1, Append(word, s[i]), TRUE, TRUE)
    ELSE IF s[i] = "'" THEN shlex_from(s, i + 1, word, TRUE, TRUE)
    ELSE IF s[i] = " "
      THEN (IF started THEN <<word>> ELSE << >>)
           \o shlex_from(s, i + 1, << >>, FALSE, FALSE)
    ELSE shlex_from(s, i + 1, Append(word, s[i]), TRUE, FALSE)

shlex_split(s) == shlex_from(s, 1, << >>, FALSE, FALSE)

Operators == {<<"&", "&">>, <<"|", "|">>, <<";">>}

\* The loop of run that splits the tokens into commands and operators
\* (lines 22-36), from token i on.
RECURSIVE split_from(_, _, _, _, _)
split_from(tokens, i, commands, current_cmd, operators) ==
    IF i > Len(tokens)
      THEN [commands |-> IF current_cmd # << >>
                           THEN Append(commands, current_cmd)
                         ELSE commands,
            operators |-> operators]
    ELSE IF tokens[i] \in Operators
      THEN split_from(tokens, i + 1, Append(commands, current_cmd), << >>,
                      Append(operators, tokens[i]))
    ELSE split_from(tokens, i + 1, commands, Append(current_cmd, tokens[i]),
                    operators)

\* The exit code of a command under an assignment of exit codes to the
\* commands that exist; 127, the shell's code, for a command that does not.
ExitOf(cmd, codes) ==
    IF cmd[1] \in DOMAIN codes THEN codes[cmd[1]] ELSE 127

Skipped(op, last_exit_code) ==
    \/ op = <<"&", "&">> /\ last_exit_code # 0
    \/ op = <<"|", "|">> /\ last_exit_code = 0

\* A faulty variant of run_from: a skipped command resets the exit code.
RECURSIVE run_from_ResetOnSkip(_, _, _, _, _, _)
run_from_ResetOnSkip(commands, operators, idx, last_exit_code, executed, codes) ==
    IF idx > Len(commands)
      THEN [result |-> "ok", rc |-> last_exit_code, executed |-> executed]
    ELSE IF idx > 1 /\ Skipped(operators[idx - 1], last_exit_code)
      THEN run_from_ResetOnSkip(commands, operators, idx + 1, 0, executed,
                                codes)
    ELSE IF commands[idx] = << >>
      THEN [result |-> "IndexError", rc |-> last_exit_code,
            executed |-> executed]
    ELSE IF commands[idx][1] \notin DOMAIN codes
      THEN [result |-> "FileNotFoundError", rc |-> last_exit_code,
            executed |-> executed]
    ELSE run_from_ResetOnSkip(commands, operators, idx + 1,
                              ExitOf(commands[idx], codes),
                              Append(executed, commands[idx]), codes)

\* The loop of run over the commands (lines 38-58), from command idx on:
\* subprocess.run of an empty command raises IndexError and of a command
\* that does not exist FileNotFoundError, which run does not catch; the
\* exit code of any other command becomes last_exit_code.
RECURSIVE run_from(_, _, _, _, _, _)
run_from(commands, operators, idx, last_exit_code, executed, codes) ==
    IF idx > Len(commands)
      THEN [result |-> "ok", rc |-> last_exit_code, executed |-> executed]
    ELSE IF idx > 1 /\ Skipped(operators[idx - 1], last_exit_code)
      THEN run_from(commands, operators, idx + 1, last_exit_code, executed,
                    codes)
    ELSE IF commands[idx] = << >>
      THEN [result |-> "IndexError", rc |-> last_exit_code,
            executed |-> executed]
    ELSE IF commands[idx][1] \notin DOMAIN codes
      THEN [result |-> "FileNotFoundError", rc |-> last_exit_code,
            executed |-> executed]
    ELSE run_from(commands, operators, idx + 1,
                  ExitOf(commands[idx], codes),
                  Append(executed, commands[idx]), codes)

\* _combo_shell.run(command_string)
combo_run(command_string, codes) ==
    LET parts == split_from(shlex_split(command_string), 1, << >>, << >>,
                            << >>)
    IN  run_from(parts.commands, parts.operators, 1, 0, << >>, codes)

\* What bash makes of a command string: words, and operators where the
\* characters &, | and ; stand outside quotes, blanks or not.
BashWord(text) == [text |-> text, op |-> FALSE]
BashOp(text) == [text |-> text, op |-> TRUE]

RECURSIVE bash_from(_, _, _, _, _)
bash_from(s, i, word, started, quoted) ==
    LET done == IF started THEN <<BashWord(word)>> ELSE << >>
    IN  IF i > Len(s) THEN done
        ELSE IF quoted
          THEN IF s[i] = "'" THEN bash_from(s, i + 1, word, TRUE, FALSE)
               ELSE bash_from(s, i + 1, Append(word, s[i]), TRUE, TRUE)
        ELSE IF s[i] = "'" THEN bash_from(s, i + 1, word, TRUE, TRUE)
        ELSE IF s[i] = " "
          THEN done \o bash_from(s, i + 1, << >>, FALSE, FALSE)
        ELSE IF s[i] \in {"&", "|"} /\ i < Len(s) /\ s[i + 1] = s[i]
          THEN done \o <<BashOp(<<s[i], s[i]>>)>>
               \o bash_from(s, i + 2, << >>, FALSE, FALSE)
        ELSE IF s[i] \in {"&", "|", ";"}
          THEN done \o <<BashOp(<<s[i]>>)>>
               \o bash_from(s, i + 1, << >>, FALSE, FALSE)
        ELSE bash_from(s, i + 1, Append(word, s[i]), TRUE, FALSE)

bash_tokens(s) == bash_from(s, 1, << >>, FALSE, FALSE)

\* The commands of bash's tokens and the operators between them.
RECURSIVE bash_split(_, _, _, _, _)
bash_split(tokens, i, commands, current_cmd, operators) ==
    IF i > Len(tokens)
      THEN [commands |-> Append(commands, current_cmd),
            operators |-> operators]
    ELSE IF tokens[i].op
      THEN bash_split(tokens, i + 1, Append(commands, current_cmd), << >>,
                      Append(operators, tokens[i].text))
    ELSE bash_split(tokens, i + 1, commands,
                    Append(current_cmd, tokens[i].text), operators)

\* The chain bash parses: one ; at the end closes the last list and is
\* dropped.  The empty string is no command at all.
bash_chain(s) ==
    LET p == bash_split(bash_tokens(s), 1, << >>, << >>, << >>)
        n == Len(p.commands)
    IN  IF n > 1 /\ p.commands[n] = << >> /\ p.operators[n - 1] = <<";">>
          THEN [commands |-> SubSeq(p.commands, 1, n - 1),
                operators |-> SubSeq(p.operators, 1, n - 2)]
        ELSE IF p.commands = << << >> >>
          THEN [commands |-> << >>, operators |-> << >>]
        ELSE p

\* Whether bash accepts the chain: only the three operators, and a command
\* on both sides of each.
bash_accepts(s) ==
    LET c == bash_chain(s)
    IN  /\ \A k \in DOMAIN c.commands : c.commands[k] # << >>
        /\ \A k \in DOMAIN c.operators : c.operators[k] \in Operators

\* The and-or list of the commands lo..hi, which bash groups to the left:
\* the list but for its last command is run first, and its status decides
\* about the last command.
RECURSIVE bash_andor(_, _, _, _)
bash_andor(c, lo, hi, codes) ==
    IF lo = hi
      THEN [executed |-> <<c.commands[lo]>>,
            status |-> ExitOf(c.commands[lo], codes)]
    ELSE LET left == bash_andor(c, lo, hi - 1, codes)
             runs == IF c.operators[hi - 1] = <<"&", "&">>
                       THEN left.status = 0
                     ELSE left.status # 0
         IN  IF runs
               THEN [executed |-> Append(left.executed, c.commands[hi]),
                     status |-> ExitOf(c.commands[hi], codes)]
             ELSE left

\* The lists lo..hi separated by ; : all of them are run, one after the
\* other, and the status is that of the last.
RECURSIVE bash_list(_, _, _, _)
bash_list(c, lo, hi, codes) ==
    LET semis == {k \in lo..(hi - 1) : c.operators[k] = <<";">>}
    IN  IF semis = {} THEN bash_andor(c, lo, hi, codes)
        ELSE LET k == CHOOSE x \in semis : \A y \in semis : y <= x
                 left == bash_list(c, lo, k, codes)
                 right == bash_andor(c, k + 1, hi, codes)
             IN  [executed |-> left.executed \o right.executed,
                  status |-> right.status]

\* bash -c command_string, for a string bash accepts
bash_run(s, codes) ==
    LET c == bash_chain(s)
    IN  IF c.commands = << >> THEN [executed |-> << >>, status |-> 0]
        ELSE bash_list(c, 1, Len(c.commands), codes)

\* The command strings tried: the chains bash accepts, typed with blanks
\* between the words or without.  The exit codes of the two commands.
CommandStrings ==
    {s \in {Join(w, sep) : w \in SeqsUpTo(Lexemes, MaxWords),
                           sep \in {<<" ">>, << >>}} : bash_accepts(s)}

ExitCodes == {0, 3}

CodeChoices == [{<<"a">>, <<"b">>} -> ExitCodes]

\* One call of run: the string, the exit codes of the commands, whether
\* it has been made, the commands executed in order, and what it gave.
ShellCall(command_string, codes, called, executed, result, rc) ==
    [fn |-> "run", command_string |-> command_string, codes |-> codes,
     called |-> called, executed |-> executed, result |-> result, rc |-> rc]

InitShell ==
    /\ pure \in {ShellCall(s, << >>, FALSE, << >>, "", 0) :
                    s \in CommandStrings}
    /\ runner = NewRunner(TRUE, FALSE)
    /\ container = "absent"
    /\ events = << >>
    /\ lastrc = -1
    /\ fs = [t \in Targets |-> NoFile]
    /\ io = [s \in StreamIds |-> NoStream]
    /\ call = NoCall
    /\ view = NoView
    /\ tree = NoTree

\* run(command_string), the commands exiting as `codes` says
RunShell ==
    /\ ~pure.called
    /\ \E codes \in CodeChoices :
         LET r == combo_run(pure.command_string, codes)
         IN  pure' = ShellCall(pure.command_string, codes, TRUE, r.executed,
                               r.result, r.rc)
    /\ UNCHANGED <<runnerVars, fileVars, view, tree>>

NextShell == RunShell

SpecShell == InitShell /\ [][NextShell]_vars

ShellCalled == pure.fn = "run" /\ pure.called

SameWords(s) ==
    /\ shlex_split(s) = [k \in DOMAIN bash_tokens(s) |-> bash_tokens(s)[k].text]
    /\ \A k \in DOMAIN bash_tokens(s) :
          bash_tokens(s)[k].op \/ bash_tokens(s)[k].text \notin Operators

\* Whether every command of the chain names a program that exists, that
\* is, one that has an exit code.
AllExist(s, codes) ==
    \A k \in DOMAIN bash_chain(s).commands :
        bash_chain(s).commands[k][1] \in DOMAIN codes

Images == 1..3

\* The most entries of one depends_on list.
MaxDeps == 2

\* The image_info.json files: whether the image is active, and the names
\* it depends on.
ImageInfos ==
    [Images -> [active : BOOLEAN,
                depends_on : {d \in SUBSET Images : Cardinality(d) <= MaxDeps}]]

\* sorted(names)
RECURSIVE sorted(_)
sorted(names) ==
    IF names = {} THEN << >>
    ELSE LET least == CHOOSE n \in names : \A m \in names : n <= m
         IN  <<least>> \o sorted(names \ {least})

\* _collect_active_image_graph: the names of the active images, their
\* dependencies, and for every name the active images that depend on it.
collect_active_image_graph(infos) ==
    LET active == {i \in Images : infos[i].active}
    IN  [name_to_dir |-> active,
         dependencies |-> [i \in active |-> infos[i].depends_on],
         reverse_deps |-> [d \in Images |->
                             {i \in active : d \in infos[i].depends_on}]]

\* The for loop over the children of a node (lines 868-871), from the
\* k-th child on: the indegrees and the queue it leaves.
RECURSIVE visit_children(_, _, _, _)
visit_children(children, k, indegree, queue) ==
    IF k > Len(children) THEN [indegree |-> indegree, queue |-> queue]
    ELSE LET child == children[k]
             lowered == [indegree EXCEPT ![child] = @ - 1]
         IN  visit_children(children, k + 1, lowered,
                            IF lowered[child] = 0 THEN Append(queue, child)
                            ELSE queue)

\* A faulty variant of indegree_of: only active dependencies are counted.
indegree_of_ActiveOnly(graph, name) ==
    Cardinality(graph.dependencies[name] \cap graph.name_to_dir)

\* len(dependencies.get(name, set()))
indegree_of(graph, name) == Cardinality(graph.dependencies[name])

\* A faulty variant of sort_check: any number of sorted names is returned.
sort_check_Unchecked(sorted_names, name_to_dir) == "returned"

\* The check after the loop (lines 872-874)
sort_check(sorted_names, name_to_dir) ==
    IF Len(sorted_names) # Cardinality(name_to_dir) THEN "RuntimeError"
    ELSE "returned"

\* The state of one call of _topological_sort_image_names.
SortState(infos, graph, phase, indegree, queue, sorted_names) ==
    [fn |-> "sort", infos |-> infos, graph |-> graph, phase |-> phase,
     indegree |-> indegree, queue |-> queue, sorted_names |-> sorted_names]

InitSort ==
    /\ pure \in {SortState(infos, collect_active_image_graph(infos),
                           "called", << >>, << >>, << >>) :
                    infos \in ImageInfos}
    /\ runner = NewRunner(TRUE, FALSE)
    /\ container = "absent"
    /\ events = << >>
    /\ lastrc = -1
    /\ fs = [t \in Targets |-> NoFile]
    /\ io = [s \in StreamIds |-> NoStream]
    /\ call = NoCall
    /\ view = NoView
    /\ tree = NoTree

\* Lines 863-865: the indegrees, and the queue of the names without
\* dependencies, sorted.
SortStart ==
    /\ pure.phase = "called"
    /\ LET g == pure.graph
           indegree == [n \in g.name_to_dir |-> indegree_of(g, n)]
       IN  pure' = [pure EXCEPT
                       !.phase = "loop",
                       !.indegree = indegree,
                       !.queue = sorted({n \in g.name_to_dir :
                                            indegree[n] = 0})]
    /\ UNCHANGED <<runnerVars, fileVars, view, tree>>

\* One turn of the while loop (lines 866-871)
SortStep ==
    /\ pure.phase = "loop"
    /\ pure.queue # << >>
    /\ LET node == Head(pure.queue)
           v == visit_children(sorted(pure.graph.reverse_deps[node]), 1,
                               pure.indegree, Tail(pure.queue))
       IN  pure' = [pure EXCEPT
                       !.sorted_names = Append(@, node),
                       !.indegree = v.indegree,
                       !.queue = v.queue]
    /\ UNCHANGED <<runnerVars, fileVars, view, tree>>

\* The loop ends, and the sort returns or raises (lines 872-875)
SortEnd ==
    /\ pure.phase = "loop"
    /\ pure.queue = << >>
    /\ pure' = [pure EXCEPT
                   !.phase = sort_check(pure.sorted_names,
                                        pure.graph.name_to_dir)]
    /\ UNCHANGED <<runnerVars, fileVars, view, tree>>

NextSort == SortStart \/ SortStep \/ SortEnd

SpecSort == InitSort /\ [][NextSort]_vars

\* The call goes on as long as it has a step to take.
SpecSortFair == SpecSort /\ WF_vars(NextSort)

\* C22: whenever the sort returns, its result holds every active image
\* exactly once, and every image after all the images it depends on.
C22_PlanIsCompleteAndOrdered ==
    (pure.fn = "sort" /\ pure.phase = "returned")
        => LET plan == pure.sorted_names
               g == pure.graph
           IN  /\ Len(plan) = Cardinality(g.name_to_dir)
               /\ {plan[p] : p \in DOMAIN plan} = g.name_to_dir
               /\ \A p \in DOMAIN plan :
                     \A d \in g.dependencies[plan[p]] :
                        \E q \in 1..(p - 1) : plan[q] = d

\* Image 1 depends on 3 and 3 on 2: the plan is 2, 3, 1.
C22_Witness ==
    /\ pure.fn = "sort"
    /\ pure.phase = "returned"
    /\ pure.graph.name_to_dir = Images
    /\ pure.graph.dependencies[1] = {3}
    /\ pure.graph.dependencies[3] = {2}
    /\ pure.sorted_names = <<2, 3, 1>>

\* The names reached from a set of names along the dependencies of the
\* active images, in at most n steps.
RECURSIVE DependsOn(_, _, _)
DependsOn(g, names, n) ==
    LET next == UNION {g.dependencies[i] : i \in names \cap g.name_to_dir}
    IN  IF n = 0 THEN {} ELSE next \cup DependsOn(g, next, n - 1)

\* An active image depends on itself, directly or around a cycle, or on a
\* name that is not an active image.
BadGraph(g) ==
    \E i \in g.name_to_dir :
        \/ i \in DependsOn(g, {i}, Cardinality(Images))
        \/ g.dependencies[i] \ g.name_to_dir # {}

\* C23: if the graph of the active images has a cycle, or an active image
\* depends on a name that is not an active image, the sort never returns
\* a plan, and it ends by raising RuntimeError.
C23_BadGraphRaises ==
    /\ []((pure.fn = "sort" /\ BadGraph(pure.graph))
            => pure.phase # "returned")
    /\ (pure.fn = "sort" /\ BadGraph(pure.graph))
          ~> (pure.phase = "RuntimeError")

\* Images 1 and 2 depend on each other and 3 on nothing: 3 is sorted, and
\* the sort raises.
C23_Witness ==
    /\ pure.fn = "sort"
    /\ pure.phase = "RuntimeError"
    /\ pure.graph.name_to_dir = Images
    /\ pure.graph.dependencies[1] = {2}
    /\ pure.graph.dependencies[2] = {1}
    /\ pure.sorted_names = <<3>>

(***************************************************************************)
(* am_common_lib.common.immutable_dict.ImmutableDict: a dict whose         *)
(* mutating methods are overridden to raise TypeError.                     *)
(***************************************************************************)

DictKeys == {"a", "b", "c"}
DictValues == {1, 2}

\* A dict is the sequence of its items <<key, value>>, in iteration order.
KeysOf(items) == {items[i][1] : i \in DOMAIN items}

Dicts(n) ==
    {d \in SeqsUpTo(DictKeys \X DictValues, n) :
        \A i, j \in DOMAIN d : i # j => d[i][1] # d[j][1]}

\* dict.update(other) on the items, which is what dict.__ior__ does: the
\* value of a key that is there is replaced in its place, a new key is put
\* at the end.
RECURSIVE dict_update(_, _)
dict_update(items, other) ==
    IF other = << >> THEN items
    ELSE LET k == other[1][1]
             put == IF k \in KeysOf(items)
                      THEN [i \in DOMAIN items |->
                              IF items[i][1] = k THEN other[1] ELSE items[i]]
                    ELSE Append(items, other[1])
         IN  dict_update(put, Tail(other))

\* The methods ImmutableDict overrides, each to raise TypeError.
Overridden ==
    {"__setitem__", "__delitem__", "clear", "pop", "popitem", "setdefault",
     "update"}

\* One call on the mapping: the method the class resolves it to, with the
\* result and the items it leaves.  __ior__ is not overridden and is
\* dict's.
ImmutableDict_call(items, op, other) ==
    IF op \in Overridden THEN [result |-> "TypeError", items |-> items]
    ELSE [result |-> "returned", items |-> dict_update(items, other)]

\* The mapping as constructed, the mapping now, and the last call.
DictState(initial, items, op, result) ==
    [fn |-> "ImmutableDict", initial |-> initial, items |-> items,
     op |-> op, result |-> result]

InitDict ==
    /\ pure \in {DictState(d, d, "none", "") : d \in Dicts(2)}
    /\ runner = NewRunner(TRUE, FALSE)
    /\ container = "absent"
    /\ events = << >>
    /\ lastrc = -1
    /\ fs = [t \in Targets |-> NoFile]
    /\ io = [s \in StreamIds |-> NoStream]
    /\ call = NoCall
    /\ view = NoView
    /\ tree = NoTree

\* The state after a call of a method.
AfterCall(op, other) ==
    LET r == ImmutableDict_call(pure.items, op, other)
    IN  DictState(pure.initial, r.items, op, r.result)

\* d[key] = value
SetItem ==
    /\ \E item \in DictKeys \X DictValues :
         pure' = AfterCall("__setitem__", <<item>>)
    /\ UNCHANGED <<runnerVars, fileVars, view, tree>>

\* del d[key]
DelItem ==
    /\ \E item \in DictKeys \X DictValues :
         pure' = AfterCall("__delitem__", <<item>>)
    /\ UNCHANGED <<runnerVars, fileVars, view, tree>>

\* d.pop(key)
Pop ==
    /\ \E item \in DictKeys \X DictValues : pure' = AfterCall("pop", <<item>>)
    /\ UNCHANGED <<runnerVars, fileVars, view, tree>>

\* d.popitem()
PopItem ==
    /\ pure' = AfterCall("popitem", << >>)
    /\ UNCHANGED <<runnerVars, fileVars, view, tree>>

\* d.clear()
Clear ==
    /\ pure' = AfterCall("clear", << >>)
    /\ UNCHANGED <<runnerVars, fileVars, view, tree>>

\* d.update(other)
Update ==
    /\ \E other \in Dicts(1) : pure' = AfterCall("update", other)
    /\ UNCHANGED <<runnerVars, fileVars, view, tree>>

\* d.setdefault(key, value)
SetDefault ==
    /\ \E item \in DictKeys \X DictValues :
         pure' = AfterCall("setdefault", <<item>>)
    /\ UNCHANGED <<runnerVars, fileVars, view, tree>>

\* d |= other
Ior ==
    /\ \E other \in Dicts(1) : pure' = AfterCall("__ior__", other)
    /\ UNCHANGED <<runnerVars, fileVars, view, tree>>

NextDict ==
    \/ SetItem
    \/ DelItem
    \/ Pop
    \/ PopItem
    \/ Clear
    \/ Update
    \/ SetDefault
    \/ Ior

SpecDict == InitDict /\ [][NextDict]_vars

\* C24 as stated: every mutating operation, __ior__ included, raises
\* TypeError, and the items and their order stay as constructed after any
\* sequence of attempts.
C24_Claim_EveryMutationRaises ==
    pure.fn = "ImmutableDict"
        => /\ pure.op # "none" => pure.result = "TypeError"
           /\ pure.items = pure.initial

(***************************************************************************)
(* run_ci_locally.py: main and _run_local_ci, one step at a time.  Every   *)
(* command that is run with check=True may fail and raise; the commands    *)
(* run with check=False never raise.  SpecCi follows one call of main.     *)
(***************************************************************************)

\* The calls main makes between _capture_working_tree_commit and its try
\* statement, in order (lines 93-104).
BeforeTry ==
    <<"_compute_project_identity", "_ensure_volume_exists dind",
      "_ensure_volume_exists uv_cache", "_ensure_volume_exists uv_data",
      "_build_host_dind_image", "calculate_mounting_args">>

\* The calls _run_local_ci makes before it starts the container (323-338):
\* the first four never raise, the overlay files may.
BeforeStart ==
    <<"_stop_containers_using_volume dind",
      "_stop_containers_using_volume uv_cache",
      "_stop_containers_using_volume uv_data",
      "_remove_container_if_exists", "overlays">>

\* The calls inside the try statement of _run_local_ci (369-392).
Tried ==
    <<"_wait_for_inner_docker", "_build_inner_images", "_stream_ci_output",
      "_collect_and_bundle_results", "sys.exit">>

\* The step after the i-th of a list, or `then` after its last.
After(steps, i, then) == IF i < Len(steps) THEN steps[i + 1] ELSE then

\* Where a step is in a list (0: nowhere).
StepIndex(steps, s) ==
    IF \E i \in 1 .. Len(steps) : steps[i] = s
      THEN CHOOSE i \in 1 .. Len(steps) : steps[i] = s
      ELSE 0

\* One call of main: the arguments, the next step, the temporary ref and
\* the CI container, the exception on its way out, and the clean-up
\* commands run so far.
CiState(keep_container, pc, ref, needs_ref_cleanup, ci_container, started, ci_exit_code, pending, issued, outcome) ==
    [fn |-> "main", keep_container |-> keep_container, pc |-> pc,
     ref |-> ref, needs_ref_cleanup |-> needs_ref_cleanup,
     ci_container |-> ci_container, started |-> started,
     ci_exit_code |-> ci_exit_code, pending |-> pending, issued |-> issued,
     outcome |-> outcome]

\* main is called with or without --keep-container; a container of the
\* name may be left from an earlier run.
InitCi ==
    /\ pure \in {CiState(k, "_capture_working_tree_commit", "absent", FALSE,
                         c, FALSE, -1, "none", {}, "running") :
                    k \in BOOLEAN, c \in {"absent", "running"}}
    /\ runner = NewRunner(TRUE, FALSE)
    /\ container = "absent"
    /\ events = << >>
    /\ lastrc = -1
    /\ fs = [t \in Targets |-> NoFile]
    /\ io = [s \in StreamIds |-> NoStream]
    /\ call = NoCall
    /\ view = NoView
    /\ tree = NoTree

\* An exception leaves main with no handler on its way.
Propagates(s, exc) ==
    [s EXCEPT !.pc = "done", !.pending = exc, !.outcome = "raised"]

\* _capture_working_tree_commit
capture_working_tree_commit(s, failed_at, matches_head) ==
    IF failed_at \in {"git_write_working_tree", "rev-parse"}
      THEN Propagates(s, "CalledProcessError")
    ELSE IF matches_head
      THEN [s EXCEPT !.pc = BeforeTry[1]]
    ELSE IF failed_at \in {"commit-tree", "update-ref"}
      THEN Propagates(s, "CalledProcessError")
    ELSE [s EXCEPT !.pc = BeforeTry[1], !.ref = "present",
                   !.needs_ref_cleanup = TRUE]

\* main, lines 93-104: a failure here is outside the try statement.
main_before_try(s, ok) ==
    IF ok
      THEN [s EXCEPT !.pc = After(BeforeTry, StepIndex(BeforeTry, s.pc),
                                  BeforeStart[1])]
      ELSE Propagates(s, "CalledProcessError")

\* _run_local_ci, lines 323-338: inside main's try statement.
run_local_ci_before_start(s, ok) ==
    LET next == After(BeforeStart, StepIndex(BeforeStart, s.pc), "docker run")
    IN  IF s.pc = "_remove_container_if_exists"
          THEN [s EXCEPT !.pc = next, !.ci_container = "absent"]
        ELSE IF s.pc = "overlays" /\ ~ok
          THEN [s EXCEPT !.pc = "finally main", !.pending = "OSError"]
        ELSE [s EXCEPT !.pc = next]

\* _run_local_ci, lines 340-357: docker run -d --name container_name.
docker_run(s, ok) ==
    IF ok
      THEN [s EXCEPT !.pc = "chown", !.ci_container = "running",
                     !.started = TRUE]
      ELSE [s EXCEPT !.pc = "finally main", !.pending = "CalledProcessError"]

\* _run_local_ci, lines 358-368: the ownership fix-up, before the try
\* statement of _run_local_ci and inside that of main.
chown(s, ok) ==
    IF ok
      THEN [s EXCEPT !.pc = Tried[1]]
      ELSE [s EXCEPT !.pc = "finally main", !.pending = "CalledProcessError"]

\* _run_local_ci, lines 369-392: a step of the try statement; the CI run
\* gives the exit code, and a non-zero one ends the call with SystemExit.
tried(s, ok, exit_code) ==
    LET next == After(Tried, StepIndex(Tried, s.pc), "finally _run_local_ci")
    IN  IF s.pc = "sys.exit"
          THEN [s EXCEPT !.pc = next,
                         !.pending = IF s.ci_exit_code # 0 THEN "SystemExit"
                                     ELSE "none"]
        ELSE IF ~ok
          THEN [s EXCEPT !.pc = "finally _run_local_ci",
                         !.pending = "CalledProcessError"]
        ELSE IF s.pc = "_stream_ci_output"
          THEN [s EXCEPT !.pc = next, !.ci_exit_code = exit_code]
        ELSE [s EXCEPT !.pc = next]

\* _run_local_ci, lines 393-397, with _remove_container_if_exists: docker
\* rm -f is run with check=False, whether it removed the container or not.
finally_run_local_ci(s, removed) ==
    IF s.keep_container
      THEN [s EXCEPT !.pc = "finally main"]
      ELSE [s EXCEPT !.pc = "finally main",
                     !.issued = @ \cup {"docker rm -f"},
                     !.ci_container = IF removed THEN "absent" ELSE @]

\* main, lines 117-119, with _cleanup_temp_ref: git update-ref -d is run
\* with check=False; then main returns, or the exception goes on.
finally_main(s, deleted) ==
    LET t == IF s.needs_ref_cleanup
               THEN [s EXCEPT !.issued = @ \cup {"git update-ref -d"},
                              !.ref = IF deleted THEN "absent" ELSE @]
               ELSE s
    IN  [t EXCEPT !.pc = "done",
                  !.outcome = IF s.pending = "none" THEN "returned"
                              ELSE "raised"]

CaptureWorkingTreeCommit ==
    /\ pure.pc = "_capture_working_tree_commit"
    /\ \E failed_at \in {"none", "git_write_working_tree", "rev-parse",
                         "commit-tree", "update-ref"},
          matches_head \in BOOLEAN :
         pure' = capture_working_tree_commit(pure, failed_at, matches_head)
    /\ UNCHANGED <<runnerVars, fileVars, view, tree>>

MainBeforeTry ==
    /\ StepIndex(BeforeTry, pure.pc) > 0
    /\ \E ok \in BOOLEAN : pure' = main_before_try(pure, ok)
    /\ UNCHANGED <<runnerVars, fileVars, view, tree>>

RunLocalCiBeforeStart ==
    /\ StepIndex(BeforeStart, pure.pc) > 0
    /\ \E ok \in BOOLEAN : pure' = run_local_ci_before_start(pure, ok)
    /\ UNCHANGED <<runnerVars, fileVars, view, tree>>

DockerRun ==
    /\ pure.pc = "docker run"
    /\ \E ok \in BOOLEAN : pure' = docker_run(pure, ok)
    /\ UNCHANGED <<runnerVars, fileVars, view, tree>>

Chown ==
    /\ pure.pc = "chown"
    /\ \E ok \in BOOLEAN : pure' = chown(pure, ok)
    /\ UNCHANGED <<runnerVars, fileVars, view, tree>>

TriedStep ==
    /\ StepIndex(Tried, pure.pc) > 0
    /\ \E ok \in BOOLEAN, exit_code \in {0, 1} :
         pure' = tried(pure, ok, exit_code)
    /\ UNCHANGED <<runnerVars, fileVars, view, tree>>

FinallyRunLocalCi ==
    /\ pure.pc = "finally _run_local_ci"
    /\ \E removed \in BOOLEAN : pure' = finally_run_local_ci(pure, removed)
    /\ UNCHANGED <<runnerVars, fileVars, view, tree>>

FinallyMain ==
    /\ pure.pc = "finally main"
    /\ \E deleted \in BOOLEAN : pure' = finally_main(pure, deleted)
    /\ UNCHANGED <<runnerVars, fileVars, view, tree>>

NextCi ==
    \/ CaptureWorkingTreeCommit
    \/ MainBeforeTry
    \/ RunLocalCiBeforeStart
    \/ DockerRun
    \/ Chown
    \/ TriedStep
    \/ FinallyRunLocalCi
    \/ FinallyMain

SpecCi == InitCi /\ [][NextCi]_vars

\* main is over: it returned or an exception left it.
MainEnded == pure.fn = "main" /\ pure.outcome \in {"returned", "raised"}

\* C28 as stated: whenever the temporary ref was created, its deletion has
\* been run when main returns or raises, on every exit path, a failure of
\* volume creation, of the host image build or of the mount calculation
\* included.
C28_Claim_TempRefDeletedOnEveryExitPath ==
    (MainEnded /\ pure.needs_ref_cleanup)
        => "git update-ref -d" \in pure.issued

\* _run_local_ci is over: main is in its finally clause or beyond.
RunLocalCiEnded == pure.fn = "main" /\ pure.pc \in {"finally main", "done"}

\* C29 as stated: unless keep_container is set, once the CI container has
\* been started its removal has been run when _run_local_ci is left, on
\* every exit path, a failure of the ownership fix-up included.
C29_Claim_StartedContainerRemovedOnEveryExitPath ==
    (RunLocalCiEnded /\ pure.started /\ ~pure.keep_container)
        => "docker rm -f" \in pure.issued

(***************************************************************************)
(* Further properties of the runner, of makedirs and of the streams.       *)
(***************************************************************************)

\* C25: release (__exit__) of a runner created with auto_clean_up false
\* issues no removal, on the graceful path and on the timeout path alike,
\* and a container that is there when release begins is still there when
\* release is over.
C25_ReleaseKeepsContainerWithoutAutoCleanUp ==
    [][(runner.phase = "in_scope" /\ Released' /\ ~runner.auto_clean_up)
          => /\ ~HasRm(events')
             /\ container # "absent" => container' # "absent"]_vars

\* A runner without auto-cleanup was acquired with its handshake; on
\* release the client did not exit in time and was killed; no removal was
\* issued, and the container is still running.
C25_Witness ==
    /\ ~runner.auto_clean_up
    /\ ~runner.skip_handshake
    /\ runner.phase = "released"
    /\ runner.waited > ExitTimeout
    /\ Has(events, "kill")
    /\ ~HasRm(events)
    /\ container = "running"

\* The directories on the way to a path, the path included.
Prefixes(p) == {SubSeq(p, 1, k) : k \in 1..Len(p)}

\* C26 as stated: makedirs, as a user who may write everywhere and on a
\* path that is not there and has no file on its way, makes the path and
\* every missing directory on the way to it, whatever exist_ok is.
C26_Claim_MakedirsCreatesMissingParents ==
    (/\ tree.last.op \in {"makedirs", "view.makedirs"}
     /\ tree.last.user = "root"
     /\ tree.before[tree.last.path].kind = "absent"
     /\ \A q \in Prefixes(tree.last.path) : tree.before[q].kind # "file")
        => /\ tree.last.result = "ok"
           /\ \A q \in Prefixes(tree.last.path) : tree.nodes[q].kind = "dir"

\* The file the streaming process of a stream means, if the image has it.
StreamTarget(st) == Resolve(st.cwd, st.path)

\* The user may read what the streaming process would open.
ReadableAs(st, files) ==
    /\ StreamTarget(st) \in Targets
    /\ files[StreamTarget(st)].kind = "file"
    /\ files[StreamTarget(st)].readable

\* C27 as stated: when a read-mode stream that was opened with a user is
\* entered, the existence check and the streaming process run under the
\* same user and working directory; if the check passes, the streaming
\* process can read the file as that user, and a file that user can read
\* is not rejected by the check.
C27_Claim_CheckRunsAsTheStreamsUser ==
    (/\ call.op = "enter"
     /\ io[call.id].mode = "rb"
     /\ io[call.id].user # None)
        => /\ \A i \in 1 .. Len(call.cmds) :
                /\ call.cmds[i].user = io[call.id].user
                /\ call.cmds[i].cwd = io[call.id].cwd
           /\ call.result = "ok" => ReadableAs(io[call.id], fs)
           /\ ReadableAs(io[call.id], fs) => call.result = "ok"

(***************************************************************************)
(* fflint: the fixed pipeline, run by _combo_shell.run.  SpecFflint runs   *)
(* it under every assignment of exit codes to its stages.                  *)
(***************************************************************************)

\* A word of the pipeline, as a token.
Word(w) == <<w>>

AndIf == <<"&", "&">>
OrElse == <<"|", "|">>

\* The tokens shlex.split makes of _PIPELINE: it has no quotes, and blanks
\* stand around every operator.
PipelineTokens ==
    <<Word("ruff"), Word("check"), Word("."), Word("--select"),
      Word("UP,I,F,A,B,C4,ERA,PIE,SIM,RET,TRY,PL"), Word("--fix-only"),
      Word("--quiet"), Word("--exit-zero"),
      AndIf, Word("docformatter"), Word("am_common_lib"),
      Word("_devtools/src"),
      OrElse, Word("docformatter"), Word("am_common_lib"),
      Word("_devtools/src"),
      AndIf, Word("ruff"), Word("format"), Word("."),
      AndIf, Word("prettify"),
      AndIf, Word("ruff"), Word("check"), Word("."),
      AndIf, Word("pydoclint"), Word("am_common_lib"),
      Word("_devtools/src/_devtools"),
      AndIf, Word("mypy"), Word(".")>>

\* The stages of the pipeline, by position; every stage is a process of
\* its own, with an exit code of its own.
Stages == 1 .. 8
Docformatter == {2, 3}
Mypy == 8

\* The commands of the pipeline, each named by its stage so that the two
\* docformatter runs and the three ruff runs exit independently.
Staged(commands) == [i \in 1 .. Len(commands) |-> <<i>> \o commands[i]]

\* fflint.main after its argument parsing: _run_pipeline(_PIPELINE) under
\* an assignment of exit codes to the stages.
fflint_main(codes) ==
    LET parts == split_from(PipelineTokens, 1, << >>, << >>, << >>)
    IN  run_from(Staged(parts.commands), parts.operators, 1, 0, << >>, codes)

\* One call of fflint: the exit codes of the stages, the stages that were
\* run, and what main returned.
FflintCall(codes, called, executed, result, rc) ==
    [fn |-> "fflint", codes |-> codes, called |-> called,
     executed |-> executed, result |-> result, rc |-> rc]

InitFflint ==
    /\ pure = FflintCall(<< >>, FALSE, {}, "", 0)
    /\ runner = NewRunner(TRUE, FALSE)
    /\ container = "absent"
    /\ events = << >>
    /\ lastrc = -1
    /\ fs = [t \in Targets |-> NoFile]
    /\ io = [s \in StreamIds |-> NoStream]
    /\ call = NoCall
    /\ view = NoView
    /\ tree = NoTree

Fflint ==
    /\ \E codes \in [Stages -> ExitCodes] :
         LET r == fflint_main(codes)
         IN  pure' = FflintCall(codes, TRUE,
                                {r.executed[i][1] : i \in 1 .. Len(r.executed)},
                                r.result, r.rc)
    /\ UNCHANGED <<runnerVars, fileVars, view, tree>>

NextFflint == Fflint

SpecFflint == InitFflint /\ [][NextFflint]_vars

FflintCalled == pure.fn = "fflint" /\ pure.called

\* C30: whatever the stages exit with, fflint returns 0 exactly if mypy
\* was run and exited 0; and once a stage after docformatter fails, no
\* later stage is run and the result is not 0.
C30_ZeroIffMypyRanAndPassed ==
    FflintCalled =>
        /\ pure.result = "ok"
        /\ pure.rc = 0 <=> (Mypy \in pure.executed /\ pure.codes[Mypy] = 0)
        /\ \A s \in pure.executed :
              ((\A d \in Docformatter : s > d) /\ pure.codes[s] # 0)
                 => /\ pure.rc # 0
                    /\ \A t \in Stages : t > s => t \notin pure.executed

\* The first stage failed, so the first docformatter was skipped and the
\* second run; ruff format failed after it, and nothing later was run.
C30_Witness ==
    /\ FflintCalled
    /\ pure.codes[1] # 0
    /\ pure.executed = {1, 3, 4}
    /\ pure.codes[4] # 0
    /\ pure.rc # 0

====
